---- MODULE Spec2Model ----
(***************************************************************************)
(* setup-macports: the action's main run (src/src/main.ts), the MacPorts   *)
(* provider it drives (src/src/providers/macports-provider.ts), the        *)
(* sources fetcher, the cache key utility, the command wrapper and the     *)
(* version resolver, as one state machine.  Every await of the code whose  *)
(* outcome the environment decides is one action; the synchronous code     *)
(* that follows an await up to the next one belongs to the same action.    *)
(***************************************************************************)
EXTENDS Integers, Sequences, FiniteSets, TLC

VARIABLES
    pc,            \* position of the run (or of the resolver called alone)
    settings,      \* IMacPortsSettings, as getInputs returned it
    env,           \* the host: process.platform, sw_vers, os.arch, CACHE_SAVE_ONLY
    github,        \* the release list the release-listing endpoint holds
    rinput,        \* the argument of VersionResolver.resolve
    attempt,       \* fetchReleases: the loop counter
    queries,       \* number of listReleases calls issued
    delays,        \* the setTimeout delays waited, in ms, in order
    afterOk,       \* number of listReleases calls issued after a successful one
    releases,      \* the mapped IMacPortsRelease list fetchReleases returned
    resolution,    \* the IVersionResolution resolve returned
    raised,        \* resolve threw to its caller
    setupCacheHit, \* main.ts: let setupCacheHit
    portsCacheHit, \* main.ts: let portsCacheHit
    providerCall,  \* the MacPortsProvider method main called: setup or configure
    installInfo,   \* MacPortsProvider.installInfo
    confGitPath,   \* the gitSourcesPath handed to configurator.configure
    sourcesConf,   \* the lines of sources.conf as last written
    gitExit,       \* exit codes of the git commands the running fetch has run
    fetchFailure,  \* how the source fetch of this run failed, "none" if not
    installed,     \* the port install commands run: name, exit code, report
    outputs,       \* core.setOutput: name -> set of values set in this run
    saved,         \* core.saveState: name -> value
    keys,          \* the cache keys the run derived, by consumer
    failed,        \* core.setFailed was called
    failure,       \* the message handed to core.setFailed, <<>> while none
    warnings,      \* core.warning messages, by kind
    trace,         \* the external steps of the run, in order
    call           \* an operation called on its own: arguments and outcome

vars == <<pc, settings, env, github, rinput, attempt, queries, delays, afterOk,
          releases, resolution, raised, setupCacheHit, portsCacheHit,
          providerCall, installInfo, confGitPath, sourcesConf, gitExit, fetchFailure,
          installed, outputs, saved, keys, failed, failure, warnings, trace, call>>

resolverVars == <<rinput, attempt, queries, delays, afterOk, releases,
                  resolution, raised>>

runVars == <<setupCacheHit, portsCacheHit, providerCall, installInfo, confGitPath,
             sourcesConf, gitExit, fetchFailure, installed, outputs, saved,
             keys, failed, failure, warnings, trace>>

----------------------------------------------------------------------------
(* Bounds of the model *)

\* longest release list the endpoint returns
MaxReleases == 3

\* most fields in which the two settings records of a key comparison differ
MaxDifferences == 2

\* longest list of ports handed to the installer on its own
MaxPorts == 2
\* publish timestamps are 1..MaxTime
MaxTime == 2

----------------------------------------------------------------------------
(* Strings that the code takes apart are sequences of characters *)

LowerTable ==
    [c \in {"A", "B", "C", "E", "H", "L", "P", "R", "S", "T"} |->
        CASE c = "A" -> "a" [] c = "B" -> "b" [] c = "C" -> "c"
          [] c = "E" -> "e" [] c = "H" -> "h" [] c = "L" -> "l"
          [] c = "P" -> "p" [] c = "R" -> "r" [] c = "S" -> "s"
          [] c = "T" -> "t"]

\* String.prototype.toLowerCase, one character
LowerChar(c) == IF c \in DOMAIN LowerTable THEN LowerTable[c] ELSE c

\* String.prototype.toLowerCase
ToLowerCase(s) == [i \in 1..Len(s) |-> LowerChar(s[i])]

\* s contains w as a contiguous run of characters
Contains(s, w) ==
    \E i \in 1..(Len(s) - Len(w) + 1) : SubSeq(s, i, i + Len(w) - 1) = w

\* tag_name.replace(/^v/, '')
StripV(tag) == IF Len(tag) > 0 /\ tag[1] = "v" THEN Tail(tag) ELSE tag

\* a pattern without the i flag: rc, beta, alpha in lower case only
PrereleasePatternCaseSensitive(tag) ==
    \/ Contains(tag, <<"r", "c">>)
    \/ Contains(tag, <<"b", "e", "t", "a">>)
    \/ Contains(tag, <<"a", "l", "p", "h", "a">>)

\* /-?(rc|beta|alpha)/i.test(tag_name): the dash is optional, so the pattern
\* matches wherever rc, beta or alpha occurs in the tag, in any case
PrereleasePattern(tag) ==
    LET t == ToLowerCase(tag) IN
    \/ Contains(t, <<"r", "c">>)
    \/ Contains(t, <<"b", "e", "t", "a">>)
    \/ Contains(t, <<"a", "l", "p", "h", "a">>)

\* the version strings of the model
VLatest   == <<"l", "a", "t", "e", "s", "t">>
VUpper    == <<"L", "A", "T", "E", "S", "T">>
VMixed    == <<"L", "a", "t", "e", "s", "t">>
VPadded   == <<" ", "l", "a", "t", "e", "s", "t", " ">>
VExplicit == <<"2", ".", "9">>

\* undefined, for an optional string: a || b reads it like the empty string
Undefined == <<>>

\* a || b on strings
OrElse(a, b) == IF a # Undefined THEN a ELSE b

----------------------------------------------------------------------------
(* Version resolver *)

maxRetries == 3
DelayUnitMs == 1000
fallbackVersion == <<"2", ".", "1", "2", ".", "0">>

\* published_at is null, mapped to '' by fetchReleases: new Date('') is
\* invalid and its getTime() is NaN
NoDate == 0

\* the releases of the model, by tag_name and the prerelease flag of the
\* API: three plain tags, a tag with -RC, a tag that merely contains "rc",
\* and a plain tag flagged as a prerelease
ReleaseKinds ==
    { [tag_name |-> <<"v", "2", ".", "1">>, prerelease |-> FALSE],
      [tag_name |-> <<"v", "2", ".", "2">>, prerelease |-> FALSE],
      [tag_name |-> <<"2", ".", "0">>, prerelease |-> FALSE],
      [tag_name |-> <<"v", "3", "-", "R", "C", "1">>, prerelease |-> FALSE],
      [tag_name |-> <<"v", "2", "-", "a", "r", "c", "h">>, prerelease |-> FALSE],
      [tag_name |-> <<"v", "4">>, prerelease |-> TRUE] }

\* one release as the endpoint returns it, published at any time or not at
\* all
ApiReleases ==
    { [tag_name |-> k.tag_name, prerelease |-> k.prerelease,
       published_at |-> t] : k \in ReleaseKinds, t \in NoDate..MaxTime }

\* release lists of exactly n releases; a repository has one release per tag
ReleaseListsOfLen(n) ==
    { data \in [1..n -> ApiReleases] :
        \A i, j \in 1..n : i # j => data[i].tag_name # data[j].tag_name }

\* every release list of at most n releases
ReleaseLists(n) == UNION { ReleaseListsOfLen(k) : k \in 0..n }

\* releases for the prerelease filter: a plain tag, tags with -RC, -beta and
\* -ALPHA, and a plain tag flagged as a prerelease
PrereleaseKinds ==
    { [tag_name |-> <<"v", "2", ".", "1">>, prerelease |-> FALSE],
      [tag_name |-> <<"v", "3", "-", "R", "C", "1">>, prerelease |-> FALSE],
      [tag_name |-> <<"v", "3", "-", "b", "e", "t", "a", "2">>,
       prerelease |-> FALSE],
      [tag_name |-> <<"V", "3", "-", "A", "L", "P", "H", "A">>,
       prerelease |-> FALSE],
      [tag_name |-> <<"v", "4">>, prerelease |-> TRUE] }

\* every list of at most n releases of the given kinds, one release per tag
ReleaseListsOver(kinds, n) ==
    UNION { { data \in [1..k ->
                { [tag_name |-> x.tag_name, prerelease |-> x.prerelease,
                   published_at |-> t] : x \in kinds, t \in NoDate..MaxTime }] :
                \A i, j \in 1..k : i # j => data[i].tag_name # data[j].tag_name } :
            k \in 0..n }

\* fetchReleases: releases.data.map(release => ({tag, version, isPrerelease,
\* url, publishedAt}))
MapRelease(r) ==
    [tag          |-> r.tag_name,
     version      |-> StripV(r.tag_name),
     isPrerelease |-> r.prerelease \/ PrereleasePattern(r.tag_name),
     publishedAt  |-> r.published_at]

MapReleases(data) == [i \in 1..Len(data) |-> MapRelease(data[i])]

\* new Date(publishedAt).getTime() is NaN
IsNaN(p) == p = NoDate

\* the comparator of findLatestStable's sort, with Array.prototype.sort
\* reading a NaN result as +0
Compare(a, b) ==
    IF IsNaN(a.publishedAt) \/ IsNaN(b.publishedAt) THEN 0
    ELSE b.publishedAt - a.publishedAt

\* ECMAScript's "consistent comparator" for the values of a list
ConsistentComparator(s) ==
    LET E == { s[i] : i \in 1..Len(s) } IN
    \A a, b, c \in E :
        /\ (Compare(a, b) = 0 /\ Compare(b, c) = 0) => Compare(a, c) = 0
        /\ (Compare(a, b) < 0 /\ Compare(b, c) < 0) => Compare(a, c) < 0
        /\ (Compare(a, b) > 0 /\ Compare(b, c) > 0) => Compare(a, c) > 0

RECURSIVE InsertStable(_, _)
\* x put behind every element of the sorted list that does not sort after it
InsertStable(sorted, x) ==
    IF sorted = <<>> THEN <<x>>
    ELSE IF Compare(sorted[Len(sorted)], x) <= 0 THEN Append(sorted, x)
    ELSE Append(InsertStable(SubSeq(sorted, 1, Len(sorted) - 1), x),
                sorted[Len(sorted)])

RECURSIVE StableSort(_)
StableSort(s) ==
    IF s = <<>> THEN <<>>
    ELSE InsertStable(StableSort(SubSeq(s, 1, Len(s) - 1)), s[Len(s)])

Reorderings(s) ==
    { [i \in 1..Len(s) |-> s[f[i]]] :
        f \in { g \in [1..Len(s) -> 1..Len(s)] :
                  \A i, j \in 1..Len(s) : i # j => g[i] # g[j] } }

\* Array.prototype.sort: the stable order for a consistent comparator, an
\* implementation-defined order of the same elements otherwise
SortOutcomes(s) ==
    IF ConsistentComparator(s) THEN {StableSort(s)} ELSE Reorderings(s)

\* findLatestStable: the results it may return, <<>> for null and <<r>>
\* for the release r
findLatestStable(rel) ==
    LET stableReleases == SelectSeq(rel, LAMBDA r : ~r.isPrerelease) IN
    IF Len(stableReleases) = 0 THEN {<<>>}
    ELSE { <<sorted[1]>> : sorted \in SortOutcomes(stableReleases) }

Fallback(input) ==
    [version |-> fallbackVersion, wasLatest |-> TRUE, originalInput |-> input]

NoResolution == [version |-> Undefined, wasLatest |-> FALSE,
                 originalInput |-> Undefined]

\* a retry loop that waits the same delay after every failed attempt
ConstantDelay(k) == DelayUnitMs

\* fetchReleases: setTimeout(resolve, 1000 * attempt)
RetryDelay(k) == DelayUnitMs * k

\* a resolve whose catch throws the error on to the caller
ResolveRethrow ==
    /\ raised' = TRUE
    /\ pc' = "resolved"
    /\ UNCHANGED resolution

\* resolve's catch: warn and return the fallback version
ResolveCatch ==
    /\ resolution' = Fallback(rinput)
    /\ pc' = "resolved"
    /\ UNCHANGED raised

\* resolve(input), up to its first await: an input other than 'latest' is
\* returned as it is; otherwise fetchReleases is entered
ResolveEnter ==
    /\ pc = "resolve"
    /\ IF ToLowerCase(rinput) # VLatest
       THEN /\ resolution' = [version |-> rinput, wasLatest |-> FALSE,
                              originalInput |-> rinput]
            /\ pc' = "resolved"
       ELSE /\ pc' = "getOctokit"
            /\ UNCHANGED resolution
    /\ UNCHANGED <<settings, env, github, call, rinput, attempt, queries,
                   delays, afterOk, releases, raised>>
    /\ UNCHANGED runVars

\* fetchReleases: getOctokit(token) builds the client or throws (no token);
\* a throw is caught by resolve
GetOctokit ==
    /\ pc = "getOctokit"
    /\ \E built \in BOOLEAN :
         IF built
         THEN /\ pc' = "listReleases"
              /\ attempt' = 1
              /\ UNCHANGED <<resolution, raised>>
         ELSE /\ ResolveCatch
              /\ UNCHANGED attempt
    /\ UNCHANGED <<settings, env, github, call, rinput, queries, delays,
                   afterOk, releases>>
    /\ UNCHANGED runVars

\* what resolve returns for the result of findLatestStable
ResolveFrom(latestStable) ==
    IF latestStable = <<>> THEN Fallback(rinput)
    ELSE [version |-> latestStable[1].version, wasLatest |-> TRUE,
          originalInput |-> rinput]

\* one turn of the retry loop of fetchReleases.  A successful query returns
\* the mapped list and resolve goes on with findLatestStable; a failed one
\* waits RetryDelay(attempt) unless it was the last, and after the last the
\* error is thrown and caught by resolve
ListReleases ==
    /\ pc = "listReleases"
    /\ attempt <= maxRetries
    /\ queries' = queries + 1
    /\ afterOk' = IF releases # <<>> THEN afterOk + 1 ELSE afterOk
    /\ \E ok \in BOOLEAN :
         IF ok
         THEN /\ releases' = <<MapReleases(github)>>
              /\ \E latestStable \in findLatestStable(MapReleases(github)) :
                   resolution' = ResolveFrom(latestStable)
              /\ pc' = "resolved"
              /\ UNCHANGED <<attempt, delays, raised>>
         ELSE /\ delays' = IF attempt < maxRetries
                           THEN Append(delays, RetryDelay(attempt))
                           ELSE delays
              /\ attempt' = attempt + 1
              /\ IF attempt + 1 <= maxRetries
                 THEN /\ pc' = "listReleases"
                      /\ UNCHANGED <<resolution, raised>>
                 ELSE ResolveCatch
              /\ UNCHANGED releases
    /\ UNCHANGED <<settings, env, github, call, rinput>>
    /\ UNCHANGED runVars

----------------------------------------------------------------------------
(* Platform, cache keys, package URL *)

\* dotted version strings are kept as their parts: "15.0" is <<"15", "0">>
DigitStrings == {"10", "11", "12", "13", "14", "15", "26", "99"}

\* PlatformDetector.detect on a macOS host
Platform ==
    [version |-> env.host.versionName,
     versionNumber |-> env.host.versionNumber,
     architecture |-> env.host.architecture]

\* platform.versionNumber?.split('.')[0] || '15'
PlatformMajor(platform) ==
    IF platform.versionNumber = <<>> \/ platform.versionNumber[1] = ""
    THEN "15" ELSE platform.versionNumber[1]

\* a consumer that reads the version input only
RawVersion(st) == st.version

\* settings.resolvedVersion || settings.version
EffectiveVersion(st) == OrElse(st.resolvedVersion, st.version)

\* CacheUtil.generateImprovedCacheKey: macports-{version}-{arch}-{platform}
generateImprovedCacheKey(st, platform) ==
    [ns |-> "macports", version |-> EffectiveVersion(st),
     architecture |-> platform.architecture,
     platformMajor |-> PlatformMajor(platform)]

\* CacheUtil.generateSetupCacheKey: macports-setup-{version}-{arch}-{platform}
generateSetupCacheKey(version, platform) ==
    [ns |-> "macports-setup", version |-> version,
     architecture |-> platform.architecture,
     platformMajor |-> PlatformMajor(platform)]

\* a ports key that takes the prefix in as well
PortsKeyWithPrefix(st, platform) ==
    [ns |-> "macports-ports",
     provider |-> IF st.sourcesProvider = "git" THEN "git" ELSE "rsync",
     gitRef |-> IF st.gitRef # "" THEN st.gitRef ELSE "master",
     platformMajor |-> PlatformMajor(platform), prefix |-> st.prefix]

\* CacheUtil.generatePortsCacheKey: macports-ports-{provider}-{ref}-{platform}
generatePortsCacheKey(st, platform) ==
    [ns |-> "macports-ports",
     provider |-> IF st.sourcesProvider = "git" THEN "git" ELSE "rsync",
     gitRef |-> IF st.gitRef # "" THEN st.gitRef ELSE "master",
     platformMajor |-> PlatformMajor(platform)]

\* the strings of the variant and source lists, in the order of their UTF-16
\* code units, which is the order Array.prototype.sort() puts them in
CodeUnitOrder ==
    <<"aqua", "file:///ports [default]", "python", "quartz",
      "rsync://mirror/ports.tar", "x11">>

CodeUnitRank(str) ==
    CHOOSE i \in 1..Len(CodeUnitOrder) : CodeUnitOrder[i] = str

\* array.sort() without a comparator
RECURSIVE JsSort(_)
JsSort(arr) ==
    IF arr = <<>> THEN <<>>
    ELSE LET least == CHOOSE i \in 1..Len(arr) :
                        \A j \in 1..Len(arr) :
                            CodeUnitRank(arr[i]) <= CodeUnitRank(arr[j])
             rest == [k \in 1..(Len(arr) - 1) |->
                        IF k < least THEN arr[k] ELSE arr[k + 1]]
         IN <<arr[least]>> \o JsSort(rest)

\* generateCacheKey: sort() sorts the arrays of the settings record in place
SortedInPlace(st) ==
    [st EXCEPT !.variants = [select |-> JsSort(st.variants.select),
                             deselect |-> JsSort(st.variants.deselect)],
               !.sources = JsSort(st.sources)]

\* CacheUtil.generateCacheKey: macports-{macos}-{arch}-v2-{hash}; the hash is
\* kept as the configuration it is taken of, which makes it free of collisions
generateCacheKey(st, platform) ==
    [ns |-> "macports", platformVersion |-> platform.version,
     architecture |-> platform.architecture, cacheVersion |-> "v2",
     hash |-> [prefix |-> st.prefix, version |-> st.version,
               variants |-> SortedInPlace(st).variants,
               sources |-> SortedInPlace(st).sources]]

\* the keys of the table are compared with the digits before the first dot
MACOS_PKG_VERSIONS ==
    [k \in {"10.10", "10.11", "10.12", "10.13", "10.14", "10.15",
            "11", "12", "14", "15", "26"} |->
        CASE k = "10.10" -> "Yosemite" [] k = "10.11" -> "ElCapitan"
          [] k = "10.12" -> "Sierra" [] k = "10.13" -> "HighSierra"
          [] k = "10.14" -> "Mojave" [] k = "10.15" -> "Catalina"
          [] k = "11" -> "BigSur" [] k = "12" -> "Monterey"
          [] k = "14" -> "Sonoma" [] k = "15" -> "Sequoia"
          [] k = "26" -> "Tahoe"]

\* PackageBuilder.buildUrl throws: no leading digits, or no table entry
BuildUrlThrows(platform) ==
    \/ platform.versionNumber = <<>>
    \/ platform.versionNumber[1] \notin DigitStrings
    \/ platform.versionNumber[1] \notin DOMAIN MACOS_PKG_VERSIONS

\* the message of the error buildUrl throws, as <<text, interpolated value>>
BuildUrlError(platform) ==
    IF platform.versionNumber = <<>> \/ platform.versionNumber[1] \notin DigitStrings
    THEN <<"Could not parse macOS version", platform.versionNumber>>
    ELSE <<"Unsupported macOS version", platform.versionNumber[1]>>

\* PackageBuilder.buildUrl: .../download/v{version}/MacPorts-{version}-
\* {pkgVersion}-{name}.pkg
buildUrl(st, platform) ==
    [version |-> EffectiveVersion(st),
     pkgVersion |-> platform.versionNumber[1],
     name |-> MACOS_PKG_VERSIONS[platform.versionNumber[1]]]

----------------------------------------------------------------------------
(* Sources fetcher: repository strings are kept as their split('/') parts *)

\* path.join: empty segments vanish
PathJoin(segs) == SelectSeq(segs, LAMBDA x : x # "")

\* repository.startsWith('git@'), decided by the part before the first slash
StartsWithGitAt(part) ==
    part \in {"git@example.org:ports", "git@github.com:ports",
              "git@gitlab.com:o", "git@github.com:macports"}

\* repository.startsWith('https://'): the parts before the first two slashes
\* are 'https:' and the empty string
StartsWithHttps(repository) ==
    Len(repository) > 2 /\ repository[1] = "https:" /\ repository[2] = ""

\* the clone URL: https://github.com/{parts[1]}/{parts[2]}.git when expanded,
\* the string itself otherwise
ExpandedUrl(owner, repo) == [expanded |-> TRUE, parts |-> <<owner, repo>>]

AsIsUrl(repository) == [expanded |-> FALSE, parts |-> repository]

\* SourcesFetcher.fetch, the repository parsing: the clone URL and the
\* directory names of the clone, or a throw for an unknown format.  The test
\* for a slash comes first, so a string with a slash is read as owner/repo
\* whatever else it is; in the URL branch the string has no slash, so the
\* pattern github.com[/:]owner/repo never matches and the names are the
\* placeholders
FetchParse(repository) ==
    IF Len(repository) > 1
    THEN [throws |-> FALSE, owner |-> repository[1], repo |-> repository[2],
          repoUrl |-> ExpandedUrl(repository[1], repository[2])]
    ELSE IF StartsWithHttps(repository) \/ StartsWithGitAt(repository[1])
    THEN [throws |-> FALSE, owner |-> "custom", repo |-> "repository",
          repoUrl |-> AsIsUrl(repository)]
    ELSE [throws |-> TRUE, owner |-> "", repo |-> "",
          repoUrl |-> AsIsUrl(<<>>)]

\* setupGitSources: the ref handed to fetch, settings.gitRef || 'master'
FetchRef(st) == IF st.gitRef # "" THEN st.gitRef ELSE "master"

\* setupGitSources: path.join(prefix, 'var', 'macports', 'sources',
\* 'github.com', owner)
SourcesDir(st) ==
    PathJoin(<<st.prefix, "var", "macports", "sources", "github.com",
               IF Len(st.gitRepository) > 1 THEN st.gitRepository[1]
               ELSE "unknown">>)

\* fetch: finalPath = path.join(targetDir, repo)
FinalPath(targetDir, repository) ==
    PathJoin(Append(targetDir, FetchParse(repository).repo))

\* parts[1]?.replace(/\.git$/, '')
StripDotGit(part) ==
    CASE part = "macports-ports.git" -> "macports-ports" [] OTHER -> part

\* MacPortsProvider.configure with skipSetupSources: the git sources path
\* computed for sources.conf, <<>> for undefined
CachedGitSourcesPath(st) ==
    IF st.sourcesProvider # "git" THEN <<>>
    ELSE LET repo == st.gitRepository
             root == <<st.prefix, "var", "macports", "sources", "github.com">>
         IN IF Len(repo) > 1
            THEN IF StripDotGit(repo[2]) # ""
                 THEN <<PathJoin(root \o <<repo[1], StripDotGit(repo[2])>>)>>
                 ELSE <<PathJoin(root \o <<repo[1]>> \o repo)>>
            ELSE <<PathJoin(root \o <<"macports", repo[1]>>)>>

DefaultRsyncUrl ==
    "rsync://rsync.macports.org/macports/release/tarballs/ports.tar"

\* MacPortsConfigurator.writeSourcesConf: the lines written.  A line is its
\* location and whether it ends in [default]; the entries of the 'sources'
\* input are lines as the user wrote them
writeSourcesConf(st, gitSourcesPath) ==
    IF gitSourcesPath # <<>>
    THEN << [url |-> <<"file://">> \o gitSourcesPath[1] \o <<"/">>,
             default |-> TRUE] >>
    ELSE IF st.sourcesProvider = "custom" /\ Len(st.sources) > 0
    THEN st.sources
    ELSE IF st.sourcesProvider = "rsync"
    THEN << [url |-> <<st.rsyncUrl>>, default |-> TRUE] >>
    ELSE << [url |-> <<DefaultRsyncUrl>>, default |-> TRUE] >>

----------------------------------------------------------------------------
(* The run: src/src/main.ts run(), with MacPortsProvider.setup/configure *)

Providers == {"auto", "git", "rsync", "custom"}

\* the git-repository inputs of the model, as split('/') parts
Repositories ==
    { <<"macports", "macports-ports">>,   \* owner/repo
      <<"ports-mirror">> }                \* neither owner/repo nor a URL

\* the hosts of the model
Hosts ==
    { [platform |-> "darwin", versionName |-> "Sequoia",
       versionNumber |-> <<"15", "0">>, architecture |-> "arm64"],
      [platform |-> "darwin", versionName |-> "Unknown",
       versionNumber |-> <<"13", "6">>, architecture |-> "x86_64"],
      [platform |-> "linux", versionName |-> "Unknown",
       versionNumber |-> <<"6", "8">>, architecture |-> "x86_64"] }

\* the release lists of the endpoint in the runs of the model
RunReleaseLists ==
    { <<>>,
      << [tag_name |-> <<"v", "3", "-", "R", "C", "1">>, prerelease |-> TRUE,
          published_at |-> 2],
         [tag_name |-> <<"v", "2", ".", "1">>, prerelease |-> FALSE,
          published_at |-> 1] >> }

\* the settings records getInputs returns in the model
SettingsSet ==
    [version : {VLatest, VUpper, VExplicit},
     resolvedVersion : {Undefined},
     prefix : {"/opt/local"},
     sourcesProvider : Providers,
     gitRepository : Repositories,
     gitRef : {""},
     rsyncUrl : {DefaultRsyncUrl},
     sources : {<<>>},
     ports : {<<>>, <<"git">>},
     cache : BOOLEAN]

NoInstallInfo ==
    [usesGitSources |-> "unset", gitSourcePath |-> <<>>, packageUrl |-> <<>>,
     cacheKey |-> <<>>]

NoOutputs ==
    [cacheHit |-> {}, version |-> {}, packageUrl |-> {}, cacheKey |-> {},
     usesGitSources |-> {}, gitSourcePath |-> {}]

NoSaved ==
    [isPost |-> {}, installationPrefix |-> {}, cacheKey |-> {},
     macportsVersion |-> {}]

NoKeys == [setup |-> {}, ports |-> {}, combined |-> {}]

InitResolver ==
    /\ attempt = 0
    /\ queries = 0
    /\ delays = <<>>
    /\ afterOk = 0
    /\ releases = <<>>
    /\ resolution = NoResolution
    /\ raised = FALSE

\* no operation has been called on its own
NoCall == [op |-> "none"]

InitRun ==
    /\ call = NoCall
    /\ setupCacheHit = FALSE
    /\ portsCacheHit = FALSE
    /\ providerCall = "none"
    /\ installInfo = NoInstallInfo
    /\ confGitPath = <<>>
    /\ sourcesConf = <<>>
    /\ gitExit = <<>>
    /\ fetchFailure = "none"
    /\ installed = <<>>
    /\ outputs = NoOutputs
    /\ saved = NoSaved
    /\ keys = NoKeys
    /\ failed = FALSE
    /\ failure = <<>>
    /\ warnings = {}
    /\ trace = <<>>

\* a run of the action
Init ==
    /\ pc = "start"
    /\ settings \in SettingsSet
    /\ env \in [host : Hosts, cacheSaveOnly : BOOLEAN]
    /\ github \in RunReleaseLists
    /\ rinput = Undefined
    /\ InitResolver
    /\ InitRun

\* the resolver called on its own
InitResolve ==
    /\ pc = "resolve"
    /\ settings \in { st \in SettingsSet :
                        /\ st.version = VExplicit /\ st.sourcesProvider = "rsync"
                        /\ st.gitRepository = <<"macports", "macports-ports">>
                        /\ st.ports = <<>> /\ ~st.cache }
    /\ env \in { e \in [host : Hosts, cacheSaveOnly : BOOLEAN] :
                   e.host.architecture = "arm64" /\ ~e.cacheSaveOnly }
    /\ github \in ReleaseLists(MaxReleases)
    /\ rinput \in {VLatest, VUpper, VMixed, VPadded, VExplicit}
    /\ InitResolver
    /\ InitRun

\* the resolver called with 'latest' on lists of releases and prereleases
InitPrerelease ==
    /\ pc = "resolve"
    /\ settings \in { st \in SettingsSet :
                        /\ st.version = VExplicit /\ st.sourcesProvider = "rsync"
                        /\ st.gitRepository = <<"macports", "macports-ports">>
                        /\ st.ports = <<>> /\ ~st.cache }
    /\ env \in { e \in [host : Hosts, cacheSaveOnly : BOOLEAN] :
                   e.host.architecture = "arm64" /\ ~e.cacheSaveOnly }
    /\ github \in ReleaseListsOver(PrereleaseKinds, MaxReleases)
    /\ rinput \in {VLatest, VUpper}
    /\ InitResolver
    /\ InitRun

\* run's catch: core.setFailed(error.message)
OuterCatchWith(message) ==
    /\ failed' = TRUE
    /\ failure' = <<message>>
    /\ pc' = "done"

\* run's catch for an error whose message no step reads
OuterCatch == OuterCatchWith(<<"Error", "">>)

\* a test for 'latest' that compares the input as it was typed
IsLatestExact(version) == version = VLatest

\* main.ts: settings.version.toLowerCase() === 'latest'
IsLatest(version) == ToLowerCase(version) = VLatest

\* main.ts: getInputs returned; resolve the version if it is 'latest'
RunStart ==
    /\ pc = "start"
    /\ IF IsLatest(settings.version)
       THEN /\ rinput' = settings.version
            /\ pc' = "resolve"
       ELSE /\ pc' = "detect"
            /\ UNCHANGED rinput
    /\ UNCHANGED <<settings, env, github, call, attempt, queries, delays,
                   afterOk, releases, resolution, raised>>
    /\ UNCHANGED runVars

\* main.ts: settings.resolvedVersion = resolution.version
AssignResolved ==
    /\ pc = "resolved"
    /\ IF raised
       THEN /\ OuterCatch
            /\ UNCHANGED settings
       ELSE /\ settings' = [settings EXCEPT !.resolvedVersion = resolution.version]
            /\ pc' = "detect"
            /\ UNCHANGED <<failed, failure>>
    /\ UNCHANGED <<env, github, call>>
    /\ UNCHANGED resolverVars
    /\ UNCHANGED <<setupCacheHit, portsCacheHit, providerCall, installInfo, confGitPath,
                   sourcesConf, gitExit, fetchFailure, installed, outputs,
                   saved, keys, warnings, trace>>

\* a platform check that lets every host pass
AnyHostPasses(host) == TRUE

\* PlatformDetector.ensureMacOS: process.platform is 'darwin'
IsMacOS(host) == host.platform = "darwin"

\* main.ts: platformDetector.detect() (throws off macOS), then, with the
\* cache enabled, the setup and ports cache keys, up to the first restore
DetectPlatform ==
    /\ pc = "detect"
    /\ IF ~IsMacOS(env.host)
       THEN /\ OuterCatchWith(
                 <<"This action only works on macOS runners. Current platform",
                   env.host.platform>>)
            /\ UNCHANGED keys
       ELSE /\ UNCHANGED <<failed, failure>>
            /\ IF settings.cache
               THEN /\ keys' = [keys EXCEPT
                         !.setup = @ \cup {generateSetupCacheKey(
                                             EffectiveVersion(settings), Platform)},
                         !.ports = @ \cup {generatePortsCacheKey(settings, Platform)}]
                    /\ pc' = IF env.cacheSaveOnly THEN "setup" ELSE "restoreSetup"
               ELSE /\ pc' = "setup"
                    /\ UNCHANGED keys
    /\ UNCHANGED <<settings, env, github, call>>
    /\ UNCHANGED resolverVars
    /\ UNCHANGED <<setupCacheHit, portsCacheHit, providerCall, installInfo, confGitPath,
                   sourcesConf, gitExit, fetchFailure, installed, outputs,
                   saved, warnings, trace>>

\* what cache.restoreCache may do
RestoreOutcomes == {"hit", "miss", "raise"}

\* main.ts: setupCacheHit = (await cache.restoreCache(setup)) !== undefined;
\* the call is under run's try only
RestoreSetupCache ==
    /\ pc = "restoreSetup"
    /\ \E r \in RestoreOutcomes :
         /\ trace' = Append(trace, IF r = "raise" THEN "restoreSetupRaised"
                                   ELSE "restoreSetup")
         /\ IF r = "raise"
            THEN /\ OuterCatch
                 /\ UNCHANGED setupCacheHit
            ELSE /\ setupCacheHit' = (r = "hit")
                 /\ pc' = "restorePorts"
                 /\ UNCHANGED <<failed, failure>>
    /\ UNCHANGED <<settings, env, github, call>>
    /\ UNCHANGED resolverVars
    /\ UNCHANGED <<portsCacheHit, providerCall, installInfo, confGitPath, sourcesConf,
                   gitExit, fetchFailure, installed, outputs, saved, keys,
                   warnings>>

\* main.ts: portsCacheHit = (await cache.restoreCache(ports)) !== undefined
RestorePortsCache ==
    /\ pc = "restorePorts"
    /\ \E r \in RestoreOutcomes :
         /\ trace' = Append(trace, IF r = "raise" THEN "restorePortsRaised"
                                   ELSE "restorePorts")
         /\ IF r = "raise"
            THEN /\ OuterCatch
                 /\ UNCHANGED portsCacheHit
            ELSE /\ portsCacheHit' = (r = "hit")
                 /\ pc' = IF setupCacheHit THEN "copySetup" ELSE "setup"
                 /\ UNCHANGED <<failed, failure>>
    /\ UNCHANGED <<settings, env, github, call>>
    /\ UNCHANGED resolverVars
    /\ UNCHANGED <<setupCacheHit, providerCall, installInfo, confGitPath, sourcesConf,
                   gitExit, fetchFailure, installed, outputs, saved, keys,
                   warnings>>

\* a catch around the copy that warns and goes on with the cached path
CopySetupCatchKeepsHit ==
    /\ warnings' = warnings \cup {<<"Failed to restore setup cache", "copy">>}
    /\ pc' = IF portsCacheHit THEN "copyPorts" ELSE "fixPerms"
    /\ UNCHANGED setupCacheHit

\* main.ts: the catch around the copy of the restored setup cache: warning,
\* setupCacheHit = false, so that the run falls through to the fresh install
CopySetupCatch ==
    /\ warnings' = warnings \cup {<<"Failed to restore setup cache", "copy">>}
    /\ setupCacheHit' = FALSE
    /\ pc' = "setup"

\* main.ts: sudo mkdir, cp -R, rm -rf of the restored setup cache; a failed
\* command throws and is caught
CopySetupCache ==
    /\ pc = "copySetup"
    /\ \E copied \in BOOLEAN :
         IF copied
         THEN /\ trace' = Append(trace, "copySetup")
              /\ pc' = IF portsCacheHit THEN "copyPorts" ELSE "fixPerms"
              /\ UNCHANGED <<setupCacheHit, warnings>>
         ELSE /\ CopySetupCatch
              /\ UNCHANGED trace
    /\ UNCHANGED <<settings, env, github, call>>
    /\ UNCHANGED resolverVars
    /\ UNCHANGED <<portsCacheHit, providerCall, installInfo, confGitPath, sourcesConf,
                   gitExit, fetchFailure, installed, outputs, saved, keys,
                   failed, failure>>

\* main.ts: the same for the restored ports cache; a failure is caught:
\* warning, portsCacheHit = false
CopyPortsCache ==
    /\ pc = "copyPorts"
    /\ \E copied \in BOOLEAN :
         IF copied
         THEN /\ trace' = Append(trace, "copyPorts")
              /\ UNCHANGED <<portsCacheHit, warnings>>
         ELSE /\ warnings' = warnings \cup {<<"Failed to restore ports cache", "copy">>}
              /\ portsCacheHit' = FALSE
              /\ UNCHANGED trace
    /\ pc' = "fixPerms"
    /\ UNCHANGED <<settings, env, github, call>>
    /\ UNCHANGED resolverVars
    /\ UNCHANGED <<setupCacheHit, providerCall, installInfo, confGitPath, sourcesConf,
                   gitExit, fetchFailure, installed, outputs, saved, keys,
                   failed, failure>>

\* main.ts: chown/chmod of the restored prefix (a failure is a warning),
\* then provider.configure(portsCacheHit, portsCacheHit), which sets up the
\* sources unless told to skip that
FixPermissions ==
    /\ pc = "fixPerms"
    /\ \E fixed \in BOOLEAN :
         warnings' = IF fixed THEN warnings
                     ELSE warnings \cup {<<"Failed to fix permissions", "chown">>}
    /\ providerCall' = "configure"
    /\ pc' = IF portsCacheHit THEN "configure" ELSE "setupSources"
    /\ UNCHANGED <<settings, env, github, call>>
    /\ UNCHANGED resolverVars
    /\ UNCHANGED <<setupCacheHit, portsCacheHit, installInfo, confGitPath,
                   sourcesConf, gitExit, fetchFailure, installed, outputs,
                   saved, keys, failed, failure, trace>>

\* MacPortsProvider.setup up to the installer: detect, the combined cache
\* key, the state saved for the post phase, the package URL (buildUrl throws
\* for an unsupported macOS release)
ProviderSetup ==
    /\ pc = "setup"
    /\ providerCall' = "setup"
    /\ LET cacheKey == generateImprovedCacheKey(settings, Platform) IN
       /\ keys' = [keys EXCEPT !.combined = @ \cup {cacheKey}]
       /\ saved' = [saved EXCEPT
             !.installationPrefix = @ \cup {settings.prefix},
             !.cacheKey = @ \cup {cacheKey},
             !.macportsVersion = @ \cup {EffectiveVersion(settings)}]
       /\ IF BuildUrlThrows(Platform)
          THEN /\ OuterCatch
               /\ installInfo' = [installInfo EXCEPT !.cacheKey = <<cacheKey>>]
               /\ UNCHANGED trace
          ELSE /\ installInfo' = [installInfo EXCEPT
                     !.cacheKey = <<cacheKey>>,
                     !.packageUrl = <<buildUrl(settings, Platform)>>]
               /\ trace' = Append(trace, "buildUrl")
               /\ pc' = "install"
               /\ UNCHANGED <<failed, failure>>
    /\ UNCHANGED <<settings, env, github, call>>
    /\ UNCHANGED resolverVars
    /\ UNCHANGED <<setupCacheHit, portsCacheHit, confGitPath, sourcesConf,
                   gitExit, fetchFailure, installed, outputs, warnings>>

\* MacPortsInstaller.install: tc.downloadTool throws when the download
\* fails, a non-zero exit of the installer is thrown
InstallerInstall ==
    /\ pc = "install"
    /\ \E r \in {"downloadFails", "installerFails", "ok"} :
         /\ trace' = IF r = "downloadFails" THEN Append(trace, "download")
                     ELSE trace \o <<"download", "installer">>
         /\ IF r = "ok"
            THEN /\ pc' = "setupSources"
                 /\ UNCHANGED <<failed, failure>>
            ELSE OuterCatch
    /\ UNCHANGED <<settings, env, github, call>>
    /\ UNCHANGED resolverVars
    /\ UNCHANGED <<setupCacheHit, portsCacheHit, providerCall, installInfo, confGitPath,
                   sourcesConf, gitExit, fetchFailure, installed, outputs,
                   saved, keys, warnings>>

\* the source fetch threw with the given reason.  setupSources catches it in
\* auto mode (warning, usesGitSources = false, on to the configuration); in
\* git mode it leaves setupSources and reaches run's catch
FetchThrows(reason) ==
    /\ fetchFailure' = reason
    /\ IF settings.sourcesProvider = "auto"
       THEN /\ warnings' = warnings \cup {<<"Git sources failed", reason>>}
            /\ installInfo' = [installInfo EXCEPT !.usesGitSources = "false"]
            /\ pc' = "configure"
            /\ UNCHANGED <<failed, failure>>
       ELSE /\ OuterCatch
            /\ UNCHANGED <<warnings, installInfo>>

\* MacPortsProvider.setupSources: auto and git enter setupGitSources and
\* fetch (the repository string is parsed first); rsync and custom need no
\* setup
SetupSources ==
    /\ pc = "setupSources"
    /\ IF settings.sourcesProvider \in {"auto", "git"}
       THEN IF FetchParse(settings.gitRepository).throws
            THEN FetchThrows("format")
            ELSE /\ pc' = "fetchMkdir"
                 /\ UNCHANGED <<fetchFailure, warnings, installInfo, failed, failure>>
       ELSE /\ installInfo' = [installInfo EXCEPT !.usesGitSources = "false"]
            /\ pc' = "configure"
            /\ UNCHANGED <<fetchFailure, warnings, failed, failure>>
    /\ UNCHANGED <<settings, env, github, call>>
    /\ UNCHANGED resolverVars
    /\ UNCHANGED <<setupCacheHit, portsCacheHit, providerCall, confGitPath, sourcesConf,
                   gitExit, installed, outputs, saved, keys, trace>>

\* SourcesFetcher.fetch: mkdir of the target, removal of an old clone, mkdir
\* of the clone directory; a filesystem error is logged and thrown again
FetchMkdir ==
    /\ pc = "fetchMkdir"
    /\ \E made \in BOOLEAN :
         IF made
         THEN /\ pc' = "git"
              /\ UNCHANGED <<fetchFailure, warnings, installInfo, failed, failure>>
         ELSE FetchThrows("fs")
    /\ UNCHANGED <<settings, env, github, call>>
    /\ UNCHANGED resolverVars
    /\ UNCHANGED <<setupCacheHit, portsCacheHit, providerCall, confGitPath, sourcesConf,
                   gitExit, installed, outputs, saved, keys, trace>>

\* ExecUtil.exec: the exit code is returned, an error of the command is
\* caught and turned into its exit code; nothing is thrown
ExecUtilExec(code) == [exitCode |-> code, threw |-> FALSE]

\* the git commands of fetch: init, remote add, fetch, checkout
GitCommands == <<"init", "remote", "fetch", "checkout">>

\* SourcesFetcher.fetch: one git command through ExecUtil.exec, its result
\* dropped; after the last one fetch returns finalPath and setupGitSources
\* records the path and usesGitSources = true
GitExec ==
    /\ pc = "git"
    /\ Len(gitExit) < Len(GitCommands)
    /\ \E code \in {0, 1} :
         LET result == ExecUtilExec(code)
             exits == Append(gitExit, result.exitCode)
         IN IF result.threw
            THEN /\ FetchThrows("git")
                 /\ gitExit' = <<>>
                 /\ UNCHANGED trace
            ELSE IF Len(exits) < Len(GitCommands)
            THEN /\ gitExit' = exits
                 /\ UNCHANGED <<fetchFailure, warnings, installInfo, failed, failure,
                                trace, pc>>
            ELSE /\ gitExit' = <<>>
                 /\ fetchFailure' = IF \E i \in 1..Len(exits) : exits[i] # 0
                                    THEN "git" ELSE "none"
                 /\ installInfo' = [installInfo EXCEPT
                       !.gitSourcePath =
                           <<FinalPath(SourcesDir(settings), settings.gitRepository)>>,
                       !.usesGitSources = "true"]
                 /\ trace' = Append(trace, "gitPrepared")
                 /\ pc' = "configure"
                 /\ UNCHANGED <<warnings, failed, failure>>
    /\ UNCHANGED <<settings, env, github, call>>
    /\ UNCHANGED resolverVars
    /\ UNCHANGED <<setupCacheHit, portsCacheHit, providerCall, confGitPath, sourcesConf,
                   installed, outputs, saved, keys>>

\* a configurator that is handed no git sources path
NoGitPath == <<>>

\* the gitSourcesPath the provider hands to configurator.configure:
\* configure(true, true) computes it from the repository string in git mode
\* and leaves it undefined otherwise; setup and configure(false, false) pass
\* installInfo.gitSourcePath
ConfiguratorGitPath ==
    IF providerCall = "configure" /\ portsCacheHit
    THEN CachedGitSourcesPath(settings)
    ELSE installInfo.gitSourcePath

\* MacPortsConfigurator.configure, the configuration files: macports.conf,
\* variants.conf, sources.conf and the directories; a write that fails
\* throws to run's catch
Configure ==
    /\ pc = "configure"
    /\ \E written \in BOOLEAN :
         IF written
         THEN /\ confGitPath' = ConfiguratorGitPath
              /\ sourcesConf' = writeSourcesConf(settings, ConfiguratorGitPath)
              /\ trace' = Append(trace, "writeConf")
              /\ pc' = IF providerCall = "configure" /\ portsCacheHit
                       THEN IF Len(settings.ports) > 0 THEN "ports" ELSE "finish"
                       ELSE "sync"
              /\ UNCHANGED <<failed, failure>>
         ELSE /\ OuterCatch
              /\ confGitPath' = ConfiguratorGitPath
              /\ trace' = Append(trace, "writeConfFailed")
              /\ UNCHANGED sourcesConf
    /\ UNCHANGED <<settings, env, github, call>>
    /\ UNCHANGED resolverVars
    /\ UNCHANGED <<setupCacheHit, portsCacheHit, providerCall, installInfo,
                   gitExit, fetchFailure, installed, outputs, saved, keys,
                   warnings>>

\* MacPortsConfigurator.initializeRegistry: port version and port sync
\* through ExecUtil, their exit codes dropped
Sync ==
    /\ pc = "sync"
    /\ trace' = Append(trace, "sync")
    /\ pc' = IF Len(settings.ports) > 0 THEN "ports" ELSE "finish"
    /\ UNCHANGED <<settings, env, github, call>>
    /\ UNCHANGED resolverVars
    /\ UNCHANGED <<setupCacheHit, portsCacheHit, providerCall, installInfo,
                   confGitPath, sourcesConf, gitExit, fetchFailure, installed,
                   outputs, saved, keys, failed, failure, warnings>>

\* PortsInstaller.install: one port of settings.ports; the exit code of the
\* port command is dropped and the port is logged as installed
InstallPort ==
    /\ pc = "ports"
    /\ Len(installed) < Len(settings.ports)
    /\ \E code \in {0, 1} :
         installed' = Append(installed,
                        [name |-> settings.ports[Len(installed) + 1],
                         exitCode |-> ExecUtilExec(code).exitCode,
                         logged |-> "installed successfully"])
    /\ trace' = Append(trace, "portInstall")
    /\ pc' = IF Len(installed) + 1 < Len(settings.ports) THEN "ports" ELSE "finish"
    /\ UNCHANGED <<settings, env, github, call>>
    /\ UNCHANGED resolverVars
    /\ UNCHANGED <<setupCacheHit, portsCacheHit, providerCall, installInfo,
                   confGitPath, sourcesConf, gitExit, fetchFailure, outputs,
                   saved, keys, failed, failure, warnings>>

\* gatherConfigurationInfo: the git-source-path output is the path of
\* macports/macports-ports whenever git sources are in use
OutputGitSourcePath ==
    IF installInfo.usesGitSources = "true"
    THEN <<PathJoin(<<settings.prefix, "var", "macports", "sources",
                      "github.com", "macports", "macports-ports">>)>>
    ELSE <<>>

\* MacPortsProvider.setOutputs
setOutputs ==
    [outputs EXCEPT
        !.version = @ \cup {EffectiveVersion(settings)},
        !.packageUrl = @ \cup {installInfo.packageUrl},
        !.cacheKey = @ \cup {installInfo.cacheKey},
        !.usesGitSources = IF installInfo.usesGitSources = "true"
                           THEN @ \cup {"true"} ELSE @,
        !.gitSourcePath = @ \cup {OutputGitSourcePath}]

\* the end of the provider call and main's code after it.  After configure:
\* cache-hit = 'true' and the run returns.  After setup: with the cache
\* enabled and no setup cache hit, cache-hit = 'false', the two cache keys
\* again, and the saves follow
ProviderFinish ==
    /\ pc = "finish"
    /\ saved' = [saved EXCEPT !.isPost = @ \cup {"true"}]
    /\ IF providerCall = "configure"
       THEN /\ outputs' = [setOutputs EXCEPT !.cacheHit = @ \cup {"true"}]
            /\ pc' = "done"
            /\ UNCHANGED keys
       ELSE IF settings.cache /\ ~setupCacheHit
       THEN /\ outputs' = [setOutputs EXCEPT !.cacheHit = @ \cup {"false"}]
            /\ keys' = [keys EXCEPT
                  !.setup = @ \cup {generateSetupCacheKey(
                                      EffectiveVersion(settings), Platform)},
                  !.ports = @ \cup {generatePortsCacheKey(settings, Platform)}]
            /\ pc' = "saveSetup"
       ELSE /\ outputs' = setOutputs
            /\ pc' = "done"
            /\ UNCHANGED keys
    /\ UNCHANGED <<settings, env, github, call>>
    /\ UNCHANGED resolverVars
    /\ UNCHANGED <<setupCacheHit, portsCacheHit, providerCall, installInfo,
                   confGitPath, sourcesConf, gitExit, fetchFailure, installed,
                   failed, failure, warnings, trace>>

\* what staging and saving a cache may do: saved; a staging command fails;
\* cache.saveCache throws; cache.saveCache reports the key reserved
SaveOutcomes == {"ok", "stageFails", "saveFails", "reserved"}

\* a cache save whose failure reaches run's catch
SaveRethrow(what, r, next) ==
    /\ OuterCatch
    /\ UNCHANGED warnings

\* main.ts: the catch around a cache save: a reserved key is an info line,
\* anything else a warning; the run goes on with the next step
SaveCatch(what, r, next) ==
    /\ warnings' = IF r = "reserved" THEN warnings
                   ELSE warnings \cup {<<what, r>>}
    /\ pc' = next
    /\ UNCHANGED <<failed, failure>>

\* main.ts: stage the prefix without the sources and save the setup cache;
\* the catch removes the staging directory
SaveSetupCache ==
    /\ pc = "saveSetup"
    /\ \E r \in SaveOutcomes :
         /\ trace' = CASE r = "ok" -> trace \o <<"stageSetup", "saveSetup">>
                       [] r = "stageFails" ->
                            trace \o <<"stageSetup", "cleanupSetupOnError">>
                       [] OTHER ->
                            trace \o <<"stageSetup", "saveSetup",
                                       "cleanupSetupOnError">>
         /\ IF r = "ok"
            THEN /\ pc' = "savePorts"
                 /\ UNCHANGED <<warnings, failed, failure>>
            ELSE SaveCatch("Failed to save setup cache", r, "savePorts")
    /\ UNCHANGED <<settings, env, github, call>>
    /\ UNCHANGED resolverVars
    /\ UNCHANGED <<setupCacheHit, portsCacheHit, providerCall, installInfo,
                   confGitPath, sourcesConf, gitExit, fetchFailure, installed,
                   outputs, saved, keys>>

\* main.ts: stage the sources directory and save the ports cache; the catch
\* removes the staging directory
SavePortsCache ==
    /\ pc = "savePorts"
    /\ \E r \in SaveOutcomes :
         /\ trace' = CASE r = "ok" -> trace \o <<"stagePorts", "savePorts">>
                       [] r = "stageFails" ->
                            trace \o <<"stagePorts", "cleanupPortsOnError">>
                       [] OTHER ->
                            trace \o <<"stagePorts", "savePorts",
                                       "cleanupPortsOnError">>
         /\ IF r = "ok"
            THEN /\ pc' = "done"
                 /\ UNCHANGED <<warnings, failed, failure>>
            ELSE SaveCatch("Failed to save ports cache", r, "done")
    /\ UNCHANGED <<settings, env, github, call>>
    /\ UNCHANGED resolverVars
    /\ UNCHANGED <<setupCacheHit, portsCacheHit, providerCall, installInfo,
                   confGitPath, sourcesConf, gitExit, fetchFailure, installed,
                   outputs, saved, keys>>

----------------------------------------------------------------------------
(* getInputs: src/src/input-helper.ts.  An input is what core.getInput
   returns: trimmed, the empty string or sequence when it is not set *)

\* path.isAbsolute(prefix)
IsAbsolute(prefix) == prefix \in {"/opt/local", "/opt/mp"}

\* parseBooleanInput
parseBooleanInput(input) == input \in {"true", "TRUE", "1", "yes"}

\* parseVariantsInput throws: a token is kept as <<first character, rest>>
VariantsThrow(tokens) ==
    \E i \in 1..Len(tokens) : tokens[i][1] \notin {"+", "-"}

\* parseVariantsInput: +name is selected, -name is deselected
parseVariantsInput(tokens) ==
    LET names(lead) ==
            LET kept == SelectSeq(tokens, LAMBDA t : t[1] = lead)
            IN [i \in 1..Len(kept) |-> kept[i][2]]
    IN [select |-> names("+"), deselect |-> names("-")]

\* parseSourcesInput: the lines of the input, trimmed, blank lines dropped
parseSourcesInput(lines) == SelectSeq(lines, LAMBDA l : l.url # <<>>)

\* a getInputs that validates nothing
NoInputError(in) == <<>>

\* getInputs: the message of the error it throws, <<>> if it throws none
GetInputsError(in) ==
    IF in.version = <<>> THEN << <<"macports-version is required", "">> >>
    ELSE IF in.prefix = ""
    THEN << <<"installation-prefix is required", "">> >>
    ELSE IF ~IsAbsolute(in.prefix)
    THEN << <<"installation-prefix must be an absolute path", in.prefix>> >>
    ELSE IF VariantsThrow(in.variants)
    THEN << <<"Invalid variant syntax", "">> >>
    ELSE IF in.sourcesProvider # "" /\ in.sourcesProvider \notin Providers
    THEN << <<"Invalid sources-provider", in.sourcesProvider>> >>
    ELSE <<>>

\* getInputs: the settings record returned.  No git-ref input is read and
\* the record has no gitRef
getInputs(in) ==
    [version |-> in.version,
     resolvedVersion |-> Undefined,
     prefix |-> in.prefix,
     variants |-> parseVariantsInput(in.variants),
     sources |-> parseSourcesInput(in.sources),
     ports |-> in.installPorts,
     sourcesProvider |->
         IF in.sourcesProvider # "" THEN in.sourcesProvider
         ELSE IF in.useGitSources # ""
         THEN (IF parseBooleanInput(in.useGitSources) THEN "git" ELSE "rsync")
         ELSE "auto",
     gitRepository |-> IF in.gitRepository = <<"">>
                       THEN <<"macports", "macports-ports">>
                       ELSE in.gitRepository,
     gitRef |-> "",
     rsyncUrl |-> IF in.rsyncUrl = "" THEN DefaultRsyncUrl ELSE in.rsyncUrl,
     cache |-> parseBooleanInput(in.cache)]

\* the lines of a 'sources' input: none, one default source with a blank
\* line, two sources both marked [default]
SourcesInputs ==
    { <<>>,
      << [url |-> <<"file:///ports">>, default |-> TRUE],
         [url |-> <<>>, default |-> FALSE] >>,
      << [url |-> <<"file:///ports">>, default |-> TRUE],
         [url |-> <<"rsync://mirror/extra.tar">>, default |-> TRUE] >> }

\* the inputs of a workflow step that are all valid
ValidInputs ==
    [version : {VLatest, VExplicit},
     prefix : {"/opt/local"},
     variants : {<<>>},
     sources : SourcesInputs,
     sourcesProvider : Providers \cup {""},
     useGitSources : {"true"},
     gitRepository : {<<"">>, <<"ports-mirror">>},
     gitRef : {"", "release"},
     rsyncUrl : {"", "rsync://mirror/ports.tar"},
     installPorts : {<<>>, <<"git">>},
     cache : {"", "true"}]

\* the inputs among which some are invalid
CheckedInputs ==
    [version : {<<>>, VExplicit},
     prefix : {"", "opt/local", "/opt/local", "/opt/mp"},
     variants : {<<>>, << <<"+", "x11">>, <<"-", "aqua">> >>,
                 << <<"+", "x11">>, <<"a", "qua">> >>},
     sources : {<<>>},
     sourcesProvider : {"", "rsync", "svn"},
     useGitSources : {"", "false"},
     gitRepository : {<<"">>},
     gitRef : {""},
     rsyncUrl : {""},
     installPorts : {<<"git">>},
     cache : {"true"}]

\* before getInputs has returned there is no settings record
NoSettings == [produced |-> FALSE]

\* a run of the action from its inputs
InitInputs ==
    /\ pc = "getInputs"
    /\ \E in \in ValidInputs \cup CheckedInputs :
         call = [op |-> "run", inputs |-> in]
    /\ settings = NoSettings
    /\ env \in { e \in [host : Hosts, cacheSaveOnly : BOOLEAN] :
                   /\ e.host.platform = "linux" \/ e.host.architecture = "arm64"
                   /\ ~e.cacheSaveOnly }
    /\ github \in { list \in RunReleaseLists : list # <<>> }
    /\ rinput = Undefined
    /\ InitResolver
    /\ setupCacheHit = FALSE
    /\ portsCacheHit = FALSE
    /\ providerCall = "none"
    /\ installInfo = NoInstallInfo
    /\ confGitPath = <<>>
    /\ sourcesConf = <<>>
    /\ gitExit = <<>>
    /\ fetchFailure = "none"
    /\ installed = <<>>
    /\ outputs = NoOutputs
    /\ saved = NoSaved
    /\ keys = NoKeys
    /\ failed = FALSE
    /\ failure = <<>>
    /\ warnings = {}
    /\ trace = <<>>

\* main.ts: const settings = await getInputs(), under run's try; a custom
\* prefix is warned about
GetInputs ==
    /\ pc = "getInputs"
    /\ LET in == call.inputs
       IN IF GetInputsError(in) # <<>>
          THEN /\ OuterCatchWith(GetInputsError(in)[1])
               /\ UNCHANGED <<settings, warnings>>
          ELSE /\ settings' = getInputs(in)
               /\ warnings' = IF in.prefix # "/opt/local"
                               THEN warnings \cup {<<"Using custom prefix", in.prefix>>}
                               ELSE warnings
               /\ pc' = "start"
               /\ UNCHANGED <<failed, failure>>
    /\ UNCHANGED <<env, github, call>>
    /\ UNCHANGED resolverVars
    /\ UNCHANGED <<setupCacheHit, portsCacheHit, providerCall, installInfo,
                   confGitPath, sourcesConf, gitExit, fetchFailure, installed,
                   outputs, saved, keys, trace>>

----------------------------------------------------------------------------
(* Operations called on their own *)

\* the first parts and the later parts of the version numbers sw_vers reports
VersionMajors == DigitStrings \cup {"", "beta"}

VersionMinors == {"0", "6", "10", "11", "12", "13", "14", "15"}

VersionNumbers ==
    {<<>>} \cup { <<a>> : a \in VersionMajors }
           \cup { <<a, b>> : a \in VersionMajors, b \in VersionMinors }

\* settings with nothing but the version chosen
PlainSettings ==
    { st \in SettingsSet :
        /\ st.sourcesProvider = "rsync" /\ st.ports = <<>> /\ ~st.cache
        /\ st.gitRepository = <<"macports", "macports-ports">> }

\* the settings records the key operations are called with
KeySettings ==
    [version : {VExplicit, <<"2", ".", "8">>},
     resolvedVersion : {Undefined},
     prefix : {"/opt/local", "/opt/mp"},
     variants : [select : {<<>>, <<"x11", "aqua">>, <<"aqua", "x11">>},
                 deselect : {<<>>, <<"quartz", "python">>,
                             <<"python", "quartz">>}],
     sources : {<<>>,
                <<"rsync://mirror/ports.tar", "file:///ports [default]">>,
                <<"file:///ports [default]", "rsync://mirror/ports.tar">>},
     sourcesProvider : {"auto", "git", "rsync", "custom"},
     gitRef : {"", "release"}]

\* number of fields two settings records differ in
Differences(a, b) ==
    (IF a.version # b.version THEN 1 ELSE 0)
    + (IF a.prefix # b.prefix THEN 1 ELSE 0)
    + (IF a.variants.select # b.variants.select THEN 1 ELSE 0)
    + (IF a.variants.deselect # b.variants.deselect THEN 1 ELSE 0)
    + (IF a.sources # b.sources THEN 1 ELSE 0)
    + (IF a.sourcesProvider # b.sourcesProvider THEN 1 ELSE 0)
    + (IF a.gitRef # b.gitRef THEN 1 ELSE 0)

\* the platform the key operations are called on
KeyPlatform ==
    [version |-> "Sequoia", versionNumber |-> <<"15", "0">>,
     architecture |-> "arm64"]

KeyOperations ==
    {"generateCacheKey", "generateImprovedCacheKey", "generateSetupCacheKey",
     "generatePortsCacheKey"}

\* MacPortsConfigurator.writeVariantsConf: +variant lines, then -variant lines
writeVariantsConf(st) ==
    [i \in 1..Len(st.variants.select) |-> <<"+", st.variants.select[i]>>]
    \o [i \in 1..Len(st.variants.deselect) |->
          <<"-", st.variants.deselect[i]>>]

\* a key operation of CacheUtil called for two settings records a and b on
\* one platform, the configuration files written after it
InitKeys ==
    /\ pc = "call"
    /\ \E op \in KeyOperations, a \in KeySettings :
         \E b \in { x \in KeySettings : Differences(a, x) <= MaxDifferences } :
            call = [op |-> op, a |-> a, b |-> b, platform |-> KeyPlatform,
                    afterA |-> a, afterB |-> b, keyA |-> <<>>, keyB |-> <<>>,
                    variantsConf |-> <<>>, customSources |-> <<>>]
    /\ settings \in PlainSettings
    /\ settings.version = VExplicit
    /\ env \in { e \in [host : Hosts, cacheSaveOnly : BOOLEAN] :
                   e.host.architecture = "arm64" /\ ~e.cacheSaveOnly }
    /\ github = <<>>
    /\ rinput = Undefined
    /\ InitResolver
    /\ setupCacheHit = FALSE
    /\ portsCacheHit = FALSE
    /\ providerCall = "none"
    /\ installInfo = NoInstallInfo
    /\ confGitPath = <<>>
    /\ sourcesConf = <<>>
    /\ gitExit = <<>>
    /\ fetchFailure = "none"
    /\ installed = <<>>
    /\ outputs = NoOutputs
    /\ saved = NoSaved
    /\ keys = NoKeys
    /\ failed = FALSE
    /\ failure = <<>>
    /\ warnings = {}
    /\ trace = <<>>

\* the call has returned: the two keys, the records as the operation left
\* them, and variants.conf and the custom source lines written from a
KeysReturned(keyA, keyB, afterA, afterB) ==
    /\ call' = [call EXCEPT !.keyA = <<keyA>>, !.keyB = <<keyB>>,
                            !.afterA = afterA, !.afterB = afterB,
                            !.variantsConf = writeVariantsConf(afterA),
                            !.customSources = afterA.sources]
    /\ pc' = "called"
    /\ UNCHANGED <<settings, env, github>>
    /\ UNCHANGED resolverVars
    /\ UNCHANGED runVars

CallGenerateCacheKey ==
    /\ pc = "call"
    /\ call.op = "generateCacheKey"
    /\ KeysReturned(generateCacheKey(call.a, call.platform),
                    generateCacheKey(call.b, call.platform),
                    SortedInPlace(call.a), SortedInPlace(call.b))

CallGenerateImprovedCacheKey ==
    /\ pc = "call"
    /\ call.op = "generateImprovedCacheKey"
    /\ KeysReturned(generateImprovedCacheKey(call.a, call.platform),
                    generateImprovedCacheKey(call.b, call.platform),
                    call.a, call.b)

\* as main calls it, with resolvedVersion || version
CallGenerateSetupCacheKey ==
    /\ pc = "call"
    /\ call.op = "generateSetupCacheKey"
    /\ KeysReturned(
          generateSetupCacheKey(OrElse(call.a.resolvedVersion, call.a.version),
                                call.platform),
          generateSetupCacheKey(OrElse(call.b.resolvedVersion, call.b.version),
                                call.platform),
          call.a, call.b)

CallGeneratePortsCacheKey ==
    /\ pc = "call"
    /\ call.op = "generatePortsCacheKey"
    /\ KeysReturned(generatePortsCacheKey(call.a, call.platform),
                    generatePortsCacheKey(call.b, call.platform),
                    call.a, call.b)

NextKeys ==
    \/ CallGenerateCacheKey
    \/ CallGenerateImprovedCacheKey
    \/ CallGenerateSetupCacheKey
    \/ CallGeneratePortsCacheKey

\* a variants string is kept as its pieces: runs of whitespace and tokens
Whitespace == {" ", "  "}

\* port.variants.trim().split(/\s+/), the empty pieces dropped
VariantTokens(variants) == SelectSeq(variants, LAMBDA x : x \notin Whitespace)

\* PortsInstaller.install: the arguments of the port command for one port
PortArgs(st, port) ==
    (IF port.name \in st.signatureSkipPackages THEN <<"-f">> ELSE <<>>)
    \o (IF st.verbose THEN <<"-v">> ELSE <<>>)
    \o <<"install", port.name>>
    \o VariantTokens(port.variants)

\* the ports of the 'ports' input: a name and a variants string, <<>> for none
PortConfigs ==
    [name : {"git", "gdk-pixbuf2"},
     variants : {<<>>, <<"+x11">>, <<" ", "+x11", "  ", "-aqua", " ">>}]

\* lists of at most n ports
PortLists(n) == UNION { [1..k -> PortConfigs] : k \in 0..n }

\* PortsInstaller.install called on a settings record
InitInstall ==
    /\ pc = "call"
    /\ call \in [op : {"install"},
                 settings : [prefix : {"/opt/local"},
                             ports : PortLists(MaxPorts),
                             verbose : BOOLEAN,
                             signatureCheck : {"strict", "permissive",
                                               "disabled"},
                             signatureSkipPackages : {{}, {"gdk-pixbuf2"}}],
                 commands : {<<>>}]
    /\ settings \in PlainSettings
    /\ settings.version = VExplicit
    /\ env \in { e \in [host : Hosts, cacheSaveOnly : BOOLEAN] :
                   e.host.architecture = "arm64" /\ ~e.cacheSaveOnly }
    /\ github = <<>>
    /\ rinput = Undefined
    /\ InitResolver
    /\ setupCacheHit = FALSE
    /\ portsCacheHit = FALSE
    /\ providerCall = "none"
    /\ installInfo = NoInstallInfo
    /\ confGitPath = <<>>
    /\ sourcesConf = <<>>
    /\ gitExit = <<>>
    /\ fetchFailure = "none"
    /\ installed = <<>>
    /\ outputs = NoOutputs
    /\ saved = NoSaved
    /\ keys = NoKeys
    /\ failed = FALSE
    /\ failure = <<>>
    /\ warnings = {}
    /\ trace = <<>>

\* install: one turn of the loop over settings.ports, the port command run
\* through ExecUtil.exec and its result dropped; with no port left it returns
CallInstallPort ==
    /\ pc = "call"
    /\ call.op = "install"
    /\ IF Len(call.commands) < Len(call.settings.ports)
       THEN \E code \in {0, 1} :
              LET port == call.settings.ports[Len(call.commands) + 1]
              IN /\ call' = [call EXCEPT !.commands =
                      Append(@, [binary |-> PathJoin(<<call.settings.prefix,
                                                       "bin", "port">>),
                                 args |-> PortArgs(call.settings, port),
                                 exitCode |-> ExecUtilExec(code).exitCode])]
                 /\ UNCHANGED pc
       ELSE /\ pc' = "called"
            /\ UNCHANGED call
    /\ UNCHANGED <<settings, env, github>>
    /\ UNCHANGED resolverVars
    /\ UNCHANGED runVars

\* PackageBuilder.buildUrl called on a detected platform
InitBuildUrl ==
    /\ pc = "call"
    /\ call \in [op : {"buildUrl"}, settings : PlainSettings,
                 platform : [version : {"macOS"}, versionNumber : VersionNumbers,
                             architecture : {"arm64"}],
                 result : {<<>>}, error : {<<>>}]
    /\ settings = call.settings
    /\ env \in { e \in [host : Hosts, cacheSaveOnly : BOOLEAN] :
                   e.host.architecture = "arm64" /\ ~e.cacheSaveOnly }
    /\ github = <<>>
    /\ rinput = Undefined
    /\ InitResolver
    /\ setupCacheHit = FALSE
    /\ portsCacheHit = FALSE
    /\ providerCall = "none"
    /\ installInfo = NoInstallInfo
    /\ confGitPath = <<>>
    /\ sourcesConf = <<>>
    /\ gitExit = <<>>
    /\ fetchFailure = "none"
    /\ installed = <<>>
    /\ outputs = NoOutputs
    /\ saved = NoSaved
    /\ keys = NoKeys
    /\ failed = FALSE
    /\ failure = <<>>
    /\ warnings = {}
    /\ trace = <<>>

\* the call returns the URL or throws
CallBuildUrl ==
    /\ pc = "call"
    /\ call.op = "buildUrl"
    /\ call' = IF BuildUrlThrows(call.platform)
               THEN [call EXCEPT !.error = <<BuildUrlError(call.platform)>>]
               ELSE [call EXCEPT
                       !.result = <<buildUrl(call.settings, call.platform)>>]
    /\ pc' = "called"
    /\ UNCHANGED <<settings, env, github>>
    /\ UNCHANGED resolverVars
    /\ UNCHANGED runVars

\* the repository strings fetch is called with, as their split('/') parts:
\* owner/repo, three segments, no slash, the empty string, ssh and https URLs
\* on github.com and elsewhere
RepositoryStrings ==
    { <<"macports", "macports-ports">>, <<"a", "b", "c">>,
      <<"ports-mirror">>, <<"">>,
      <<"git@example.org:ports">>, <<"git@github.com:ports">>,
      <<"git@gitlab.com:o", "r.git">>,
      <<"git@github.com:macports", "macports-ports.git">>,
      <<"https:", "", "github.com", "macports", "macports-ports.git">>,
      <<"https:", "", "gitlab.com", "o", "r.git">>,
      <<"https:", "", "evil.example", "github.com", "o", "r">> }

\* SourcesFetcher.fetch called as setupGitSources calls it
InitFetch ==
    /\ pc = "call"
    /\ call \in [op : {"fetch"},
                 targetDir : {<<"opt", "local", "var", "macports", "sources",
                                "github.com", "macports">>},
                 repository : RepositoryStrings, ref : {"master", "release"},
                 parsed : {<<>>}, git : {<<>>}, result : {<<>>},
                 error : {<<>>}]
    /\ settings \in PlainSettings
    /\ settings.version = VExplicit
    /\ env \in { e \in [host : Hosts, cacheSaveOnly : BOOLEAN] :
                   e.host.architecture = "arm64" /\ ~e.cacheSaveOnly }
    /\ github = <<>>
    /\ rinput = Undefined
    /\ InitResolver
    /\ setupCacheHit = FALSE
    /\ portsCacheHit = FALSE
    /\ providerCall = "none"
    /\ installInfo = NoInstallInfo
    /\ confGitPath = <<>>
    /\ sourcesConf = <<>>
    /\ gitExit = <<>>
    /\ fetchFailure = "none"
    /\ installed = <<>>
    /\ outputs = NoOutputs
    /\ saved = NoSaved
    /\ keys = NoKeys
    /\ failed = FALSE
    /\ failure = <<>>
    /\ warnings = {}
    /\ trace = <<>>

\* fetch, the parsing of the repository string, before the try block
CallFetchParse ==
    /\ pc = "call"
    /\ call.op = "fetch"
    /\ LET parsed == FetchParse(call.repository)
       IN IF parsed.throws
          THEN /\ call' = [call EXCEPT
                             !.error = <<"Invalid git repository format">>]
               /\ pc' = "called"
          ELSE /\ call' = [call EXCEPT !.parsed = <<parsed>>]
               /\ pc' = "callMkdir"
    /\ UNCHANGED <<settings, env, github>>
    /\ UNCHANGED resolverVars
    /\ UNCHANGED runVars

\* fetch, the directories: a filesystem error is logged and thrown again
CallFetchMkdir ==
    /\ pc = "callMkdir"
    /\ \E made \in BOOLEAN :
         IF made
         THEN /\ pc' = "callGit"
              /\ UNCHANGED call
         ELSE /\ call' = [call EXCEPT !.error = <<"fs">>]
              /\ pc' = "called"
    /\ UNCHANGED <<settings, env, github>>
    /\ UNCHANGED resolverVars
    /\ UNCHANGED runVars

\* fetch, one git command; after the last, finalPath is returned
CallFetchGit ==
    /\ pc = "callGit"
    /\ Len(call.git) < Len(GitCommands)
    /\ \E code \in {0, 1} :
         LET exits == Append(call.git, ExecUtilExec(code).exitCode)
         IN IF Len(exits) < Len(GitCommands)
            THEN /\ call' = [call EXCEPT !.git = exits]
                 /\ UNCHANGED pc
            ELSE /\ call' = [call EXCEPT
                               !.git = exits,
                               !.result = <<PathJoin(Append(call.targetDir,
                                                call.parsed[1].repo))>>]
                 /\ pc' = "called"
    /\ UNCHANGED <<settings, env, github>>
    /\ UNCHANGED resolverVars
    /\ UNCHANGED runVars

NextFetch == CallFetchParse \/ CallFetchMkdir \/ CallFetchGit

----------------------------------------------------------------------------
(* Specifications *)

Next ==
    \/ RunStart
    \/ ResolveEnter
    \/ GetOctokit
    \/ ListReleases
    \/ AssignResolved
    \/ DetectPlatform
    \/ RestoreSetupCache
    \/ RestorePortsCache
    \/ CopySetupCache
    \/ CopyPortsCache
    \/ FixPermissions
    \/ ProviderSetup
    \/ InstallerInstall
    \/ SetupSources
    \/ FetchMkdir
    \/ GitExec
    \/ Configure
    \/ Sync
    \/ InstallPort
    \/ ProviderFinish
    \/ SaveSetupCache
    \/ SavePortsCache

\* a run of the action
Spec == Init /\ [][Next]_vars

NextInputs == GetInputs \/ Next

\* a run of the action from the inputs of the workflow step
SpecInputs == InitInputs /\ [][NextInputs]_vars

NextResolve == ResolveEnter \/ GetOctokit \/ ListReleases

SpecResolve == InitResolve /\ [][NextResolve]_vars

\* the resolver on releases and prereleases
SpecPrerelease == InitPrerelease /\ [][NextResolve]_vars

\* buildUrl on its own
SpecBuildUrl == InitBuildUrl /\ [][CallBuildUrl]_vars

\* fetch on its own
SpecFetch == InitFetch /\ [][NextFetch]_vars

\* the key operations on their own
SpecKeys == InitKeys /\ [][NextKeys]_vars

\* the ports installer on its own
SpecInstall == InitInstall /\ [][CallInstallPort]_vars

----------------------------------------------------------------------------
(* Properties *)

\* the external step has been taken in this run
Did(step) == \E i \in 1..Len(trace) : trace[i] = step

\* a step of the configuration, the sync or the port installation was taken
ConfiguredOrLater == Did("writeConf") \/ Did("sync") \/ Did("portInstall")

\* C1: with sourcesProvider 'git', a failed source fetch (a git command that
\* exits non-zero, a filesystem error, an invalid repository string) makes
\* the run fail: the run has ended failed, no configuration, sync or port
\* install step has run, and git sources are not reported as prepared.
C1_GitFetchFailureIsFatal ==
    (settings.sourcesProvider = "git" /\ fetchFailure # "none") =>
        /\ pc = "done"
        /\ failed
        /\ ~ConfiguredOrLater
        /\ ~Did("gitPrepared")
        /\ installInfo.usesGitSources # "true"
        /\ "true" \notin outputs.usesGitSources

\* C1, the run that contradicts it: git mode, a git command exited non-zero,
\* and the run ended without failure, reporting git sources in use
C1_GitExitIgnored ==
    /\ settings.sourcesProvider = "git"
    /\ fetchFailure = "git"
    /\ pc = "done"
    /\ ~failed
    /\ Did("gitPrepared")
    /\ Did("sync")
    /\ "true" \in outputs.usesGitSources

\* C2: with sourcesProvider 'auto', whenever the git path has failed for any
\* reason, the failure was caught: a warning with the failure reason was
\* emitted, usesGitSources is false, no git path is handed to the
\* configurator, and the run goes on: if it failed at all, it failed later,
\* in the configurator.
C2_AutoFallsBackOnAnyFailure ==
    (settings.sourcesProvider = "auto" /\ fetchFailure # "none") =>
        /\ <<"Git sources failed", fetchFailure>> \in warnings
        /\ installInfo.usesGitSources = "false"
        /\ confGitPath = <<>>
        /\ "true" \notin outputs.usesGitSources
        /\ failed => Did("writeConfFailed")

\* C2, the run that contradicts it: auto mode, a git command exited
\* non-zero, no warning, and the clone's path was written to sources.conf
C2_AutoGitExitNotCaught ==
    /\ settings.sourcesProvider = "auto"
    /\ fetchFailure = "git"
    /\ pc = "done"
    /\ ~failed
    /\ warnings = {}
    /\ installInfo.usesGitSources = "true"
    /\ confGitPath # <<>>
    /\ sourcesConf = writeSourcesConf(settings, installInfo.gitSourcePath)

\* a cache restore of this run failed: the cache store raised, or the
\* restored setup cache could not be copied to the prefix
RestoreFailed ==
    \/ Did("restoreSetupRaised")
    \/ Did("restorePortsRaised")
    \/ <<"Failed to restore setup cache", "copy">> \in warnings

\* C3: a failure to restore a cache never fails the run: after the cache
\* store's restore raised, or the restored setup cache could not be copied,
\* the run is at, or past, the call of provider.setup (the fresh install).
C3_RestoreFailureMeansFreshInstall ==
    RestoreFailed => (pc = "setup" \/ providerCall = "setup")

\* C3, the run that contradicts it: the restore of the setup cache raised
\* and the run ended failed without calling the provider
C3_RestoreRaiseFailsRun ==
    /\ Did("restoreSetupRaised")
    /\ pc = "done"
    /\ failed
    /\ providerCall = "none"

\* a failure while staging or saving the setup cache / the ports cache
SetupSaveFailed == Did("cleanupSetupOnError")
PortsSaveFailed == Did("cleanupPortsOnError")

\* C4: a failure while staging or saving the setup cache or the ports cache
\* (a reserved key included) never marks the run failed and never prevents
\* the steps after it: after a setup save failure the ports save is the
\* next step or has been attempted, and after a ports save failure the run
\* is complete and not failed.
C4_SaveFailureIsNotFatal ==
    /\ (SetupSaveFailed \/ PortsSaveFailed) => ~failed
    /\ SetupSaveFailed =>
          \/ pc = "savePorts" /\ ENABLED SavePortsCache
          \/ pc = "done" /\ Did("stagePorts")
    /\ PortsSaveFailed => pc = "done"

\* C4, its case: both saves failed and the run completed without failure
C4_BothSavesFailedRunDone ==
    /\ SetupSaveFailed
    /\ PortsSaveFailed
    /\ <<"Failed to save setup cache", "saveFails">> \in warnings
    /\ pc = "done"
    /\ ~failed

\* C5: in every run where cache-hit is 'true', the installer was neither
\* downloaded nor executed and no cache save was requested; cache-hit is
\* 'true' only after the setup cache was restored and copied to the prefix;
\* 'true' and 'false' are never both set in one run.
C5_CacheHitTrueMeansRestored ==
    /\ "true" \in outputs.cacheHit =>
          /\ ~Did("download")
          /\ ~Did("installer")
          /\ ~Did("saveSetup")
          /\ ~Did("savePorts")
          /\ Did("restoreSetup")
          /\ setupCacheHit
          /\ Did("copySetup")
    /\ ~({"true", "false"} \subseteq outputs.cacheHit)

\* C5, its case: a run that ended with cache-hit 'true'
C5_CacheHitTrueSet ==
    /\ "true" \in outputs.cacheHit
    /\ pc = "done"
    /\ Did("copySetup")

\* a cache key was generated, a cache restore requested or the package URL
\* built
KeyOrUrlStepRan ==
    \/ keys # NoKeys
    \/ installInfo.cacheKey # <<>>
    \/ installInfo.packageUrl # <<>>
    \/ Did("restoreSetup") \/ Did("restoreSetupRaised")
    \/ Did("buildUrl")

\* C6: when the version input is 'latest' (in any letter case), no cache key
\* is generated, no cache restore requested and no package URL built while
\* resolvedVersion is unset: once such a step has run, resolvedVersion holds
\* the version the Version Resolver returned.
C6_ResolvedBeforeKeysAndUrl ==
    (ToLowerCase(settings.version) = VLatest /\ KeyOrUrlStepRan) =>
        /\ settings.resolvedVersion # Undefined
        /\ settings.resolvedVersion = resolution.version
        /\ resolution.wasLatest

\* C6, its case: version 'latest', the cache keys generated and the URL built
C6_LatestKeysAndUrlBuilt ==
    /\ ToLowerCase(settings.version) = VLatest
    /\ settings.version # VLatest
    /\ keys.setup # {}
    /\ keys.combined # {}
    /\ Did("restoreSetup")
    /\ Did("buildUrl")

FailedQueries == queries - (IF releases # <<>> THEN 1 ELSE 0)

\* C8: resolving 'latest' issues at most 3 release-list queries, none after
\* the first successful one, waits k seconds after the k-th failed attempt
\* for k = 1, 2 and nothing after the third, and is then finished.
C8_AtMostThreeQueriesLinearDelay ==
    /\ queries <= 3
    /\ afterOk = 0
    /\ releases # <<>> => pc = "resolved"
    /\ Len(delays) = (IF FailedQueries < 2 THEN FailedQueries ELSE 2)
    /\ \A k \in 1..Len(delays) : delays[k] = k * 1000
    /\ queries = 3 => pc = "resolved"

\* C8, its case: three failed queries, the two delays waited, resolve
\* finished
C8_ThreeFailuresTwoDelays ==
    /\ queries = 3
    /\ releases = <<>>
    /\ delays = <<1000, 2000>>
    /\ pc = "resolved"

\* no stable release remains in the list fetchReleases returned
NoStableRelease ==
    /\ releases # <<>>
    /\ \A i \in 1..Len(releases[1]) : releases[1][i].isPrerelease

\* C9: resolve never raises to its caller: when all release-list attempts
\* failed, or the client could not be built, or no stable release remains
\* after filtering, it returns the fallback version 2.12.0 with wasLatest
\* true and originalInput equal to the input.
C9_ResolveNeverRaises ==
    /\ ~raised
    /\ (pc = "resolved" /\ ToLowerCase(rinput) = VLatest
          /\ (releases = <<>> \/ NoStableRelease)) =>
          resolution = [version |-> <<"2", ".", "1", "2", ".", "0">>,
                        wasLatest |-> TRUE, originalInput |-> rinput]

\* C9, its case: every attempt failed and resolve returned the fallback
C9_AllAttemptsFailedFallback ==
    /\ pc = "resolved"
    /\ rinput = VUpper
    /\ queries = 3
    /\ releases = <<>>
    /\ resolution.version = fallbackVersion
    /\ ~raised

\* the stable candidates of the returned release list
StableCandidates ==
    IF releases = <<>> THEN {}
    ELSE { releases[1][i] : i \in { j \in 1..Len(releases[1]) :
                                      ~releases[1][j].isPrerelease } }

\* r has the most recent publish timestamp of the stable candidates
MostRecent(r) ==
    \A c \in StableCandidates :
        c.publishedAt # NoDate =>
            (r.publishedAt # NoDate /\ r.publishedAt >= c.publishedAt)

\* C10: for every returned release list with at least one stable candidate,
\* in any order, resolving 'latest' yields the tag, leading v stripped, of a
\* stable candidate with the most recent publish timestamp.
C10_LatestIsMostRecentStable ==
    (pc = "resolved" /\ StableCandidates # {}) =>
        \E r \in StableCandidates :
            /\ MostRecent(r)
            /\ resolution.version = StripV(r.tag)

\* C10, the resolution that contradicts it: the version returned is that of
\* a stable candidate published before another stable candidate of the list
C10_OlderStableReturned ==
    /\ pc = "resolved"
    /\ \E r, c \in StableCandidates :
          /\ resolution.version = StripV(r.tag)
          /\ r.publishedAt # NoDate
          /\ c.publishedAt > r.publishedAt

\* the tag carries -rc, -beta or -alpha, in any letter case
HasPrereleaseSuffix(tag) ==
    LET t == ToLowerCase(tag) IN
    \/ Contains(t, <<"-", "r", "c">>)
    \/ Contains(t, <<"-", "b", "e", "t", "a">>)
    \/ Contains(t, <<"-", "a", "l", "p", "h", "a">>)

\* the release is flagged as a prerelease or its tag carries such a suffix
IsPrereleaseOfSource(r) == r.prerelease \/ HasPrereleaseSuffix(r.tag_name)

\* C11: the version resolved for 'latest' is never taken from a release the
\* source flags as a prerelease nor from one whose tag carries -rc, -beta or
\* -alpha (any letter case), whatever its publish timestamp; if the list
\* holds only such releases the fallback version is returned.
C11_PrereleasesNeverResolved ==
    (pc = "resolved" /\ releases # <<>>) =>
        /\ \A i \in 1..Len(github) :
              IsPrereleaseOfSource(github[i]) =>
                  resolution.version # StripV(github[i].tag_name)
        /\ (\A i \in 1..Len(github) : IsPrereleaseOfSource(github[i])) =>
              resolution = [version |-> <<"2", ".", "1", "2", ".", "0">>,
                            wasLatest |-> TRUE, originalInput |-> rinput]

\* C11, its case: the stable release was resolved although an -RC release
\* and a flagged release were published after it
C11_NewerPrereleasesSkipped ==
    /\ pc = "resolved"
    /\ resolution.version = <<"2", ".", "1">>
    /\ \E i, j, k \in 1..Len(github) :
          /\ github[i].tag_name = <<"v", "2", ".", "1">>
          /\ github[i].published_at = 1
          /\ github[j].tag_name = <<"v", "3", "-", "R", "C", "1">>
          /\ github[j].published_at = 2
          /\ github[k].prerelease
          /\ github[k].published_at = 2

RECURSIVE TrimSpaces(_)
\* the string without its leading and trailing blanks
TrimSpaces(str) ==
    IF str # <<>> /\ str[1] = " " THEN TrimSpaces(Tail(str))
    ELSE IF str # <<>> /\ str[Len(str)] = " "
    THEN TrimSpaces(SubSeq(str, 1, Len(str) - 1))
    ELSE str

\* C12: for every input whose trimmed, case-folded form is not 'latest',
\* resolve returns {version: input, wasLatest: false, originalInput: input}
\* and makes no release-list query; for every input whose trimmed,
\* case-folded form is 'latest' (LATEST, Latest, ' latest ') it performs the
\* resolution and returns wasLatest true.
C12_LatestIsTrimmedAndCaseFolded ==
    pc = "resolved" =>
        IF ToLowerCase(TrimSpaces(rinput)) = VLatest
        THEN /\ resolution.wasLatest
             /\ resolution.originalInput = rinput
        ELSE /\ resolution = [version |-> rinput, wasLatest |-> FALSE,
                              originalInput |-> rinput]
             /\ queries = 0

\* C12, the resolution that contradicts it: ' latest ' is returned as a
\* version, with wasLatest false and without any query
C12_PaddedLatestReturnedAsVersion ==
    /\ pc = "resolved"
    /\ rinput = VPadded
    /\ resolution = [version |-> VPadded, wasLatest |-> FALSE,
                     originalInput |-> VPadded]
    /\ queries = 0

\* the table entry a version number names: 10.x is release "10.x", any
\* other number is named by its first part
ReleaseKey(versionNumber) ==
    IF versionNumber = <<>> THEN ""
    ELSE IF versionNumber[1] = "10" /\ Len(versionNumber) > 1
              /\ versionNumber[2] \in {"10", "11", "12", "13", "14", "15"}
         THEN CASE versionNumber[2] = "10" -> "10.10"
                [] versionNumber[2] = "11" -> "10.11"
                [] versionNumber[2] = "12" -> "10.12"
                [] versionNumber[2] = "13" -> "10.13"
                [] versionNumber[2] = "14" -> "10.14"
                [] versionNumber[2] = "15" -> "10.15"
         ELSE versionNumber[1]

\* C13: buildUrl returns the package URL of the table entry for every release
\* the table lists, the 10.10 to 10.15 entries included, and for a release
\* number that is not in the table it throws an error whose message holds the
\* major version
C13_EveryTableEntryHasUrl ==
    (pc = "called" /\ call.op = "buildUrl") =>
        LET versionNumber == call.platform.versionNumber
            key == ReleaseKey(versionNumber)
        IN  IF key \in DOMAIN MACOS_PKG_VERSIONS
            THEN /\ call.error = <<>>
                 /\ call.result # <<>>
                 /\ call.result[1].name = MACOS_PKG_VERSIONS[key]
            ELSE /\ call.result = <<>>
                 /\ call.error # <<>>
                 /\ versionNumber # <<>> /\ versionNumber[1] \in DigitStrings
                      => call.error[1][2] = versionNumber[1]

\* macOS 10.15 is refused as unsupported version 10
C13_CatalinaRefused ==
    /\ pc = "called"
    /\ call.op = "buildUrl"
    /\ call.platform.versionNumber = <<"10", "15">>
    /\ call.result = <<>>
    /\ call.error = << <<"Unsupported macOS version", "10">> >>

\* the repository string is a full URL
IsUrlString(repository) ==
    StartsWithHttps(repository) \/ StartsWithGitAt(repository[1])

\* C14: parsing the repository string is a three-way decision: a string that
\* starts with https:// or git@ is the clone URL unchanged, any other string
\* with a slash is expanded to https://github.com/owner/repo.git, and every
\* other string raises the invalid-format error before any git command
C14_ThreeWayParsing ==
    (call.op = "fetch" /\ pc # "call") =>
        IF IsUrlString(call.repository)
        THEN /\ call.parsed # <<>>
             /\ call.parsed[1].repoUrl =
                    [expanded |-> FALSE, parts |-> call.repository]
        ELSE IF Len(call.repository) > 1
        THEN /\ call.parsed # <<>>
             /\ call.parsed[1].repoUrl =
                    [expanded |-> TRUE,
                     parts |-> <<call.repository[1], call.repository[2]>>]
        ELSE /\ call.error = <<"Invalid git repository format">>
             /\ call.parsed = <<>>
             /\ call.git = <<>>
             /\ pc = "called"

\* an https URL is expanded as if 'https:' were the owner and '' the repo
C14_HttpsUrlExpanded ==
    /\ call.op = "fetch"
    /\ pc = "called"
    /\ call.repository = <<"https:", "", "gitlab.com", "o", "r.git">>
    /\ call.parsed # <<>>
    /\ call.parsed[1].repoUrl = [expanded |-> TRUE, parts |-> <<"https:", "">>]
    /\ Len(call.git) = 4

\* the host of a URL string
UrlHost(repository) ==
    IF StartsWithHttps(repository) THEN repository[3]
    ELSE CASE repository[1] \in {"git@github.com:ports",
                                 "git@github.com:macports"} -> "github.com"
           [] repository[1] = "git@gitlab.com:o" -> "gitlab.com"
           [] OTHER -> "example.org"

\* C15: for a repository URL whose host is not github.com, github.com in the
\* path or not, the directory names of the fetch are the placeholders
\* 'custom' and 'repository'; no segment of the URL is a directory name
C15_ForeignHostGetsPlaceholders ==
    (call.op = "fetch" /\ call.parsed # <<>>
        /\ IsUrlString(call.repository)
        /\ UrlHost(call.repository) # "github.com") =>
            /\ call.parsed[1].owner = "custom"
            /\ call.parsed[1].repo = "repository"
            /\ call.result # <<>> =>
                  call.result[1] = Append(call.targetDir, "repository")

\* the last segment of an ssh URL on another host names the clone directory
C15_ForeignSegmentIsDirectory ==
    /\ call.op = "fetch"
    /\ pc = "called"
    /\ call.repository = <<"git@gitlab.com:o", "r.git">>
    /\ call.parsed # <<>>
    /\ call.parsed[1].owner = "git@gitlab.com:o"
    /\ call.parsed[1].repo = "r.git"
    /\ call.result = <<Append(call.targetDir, "r.git")>>

\* the elements of an array
Elements(arr) == { arr[i] : i \in 1..Len(arr) }

\* the two records list the same variants and sources, in any order
SameUpToOrder(a, b) ==
    /\ a.version = b.version /\ a.prefix = b.prefix
    /\ a.sourcesProvider = b.sourcesProvider /\ a.gitRef = b.gitRef
    /\ Elements(a.variants.select) = Elements(b.variants.select)
    /\ Elements(a.variants.deselect) = Elements(b.variants.deselect)
    /\ Elements(a.sources) = Elements(b.sources)

\* C16: the full-installation key is the same for two settings records that
\* are reorderings of each other, and differs for two records that differ in
\* prefix, in version, in the members of a variant set or in a source entry
C16_FullKeyFollowsConfiguration ==
    (pc = "called" /\ call.op = "generateImprovedCacheKey") =>
        /\ SameUpToOrder(call.a, call.b) => call.keyA = call.keyB
        /\ (\/ call.a.prefix # call.b.prefix
            \/ call.a.version # call.b.version
            \/ Elements(call.a.variants.select)
                  # Elements(call.b.variants.select)
            \/ Elements(call.a.variants.deselect)
                  # Elements(call.b.variants.deselect)
            \/ Elements(call.a.sources) # Elements(call.b.sources))
              => call.keyA # call.keyB

\* two records that differ in prefix and variants get the same full key
C16_PrefixNotInFullKey ==
    /\ pc = "called"
    /\ call.op = "generateImprovedCacheKey"
    /\ call.a.prefix = "/opt/local" /\ call.b.prefix = "/opt/mp"
    /\ call.a.variants.select = <<>>
    /\ call.b.variants.select = <<"x11", "aqua">>
    /\ call.keyA # <<>>
    /\ call.keyA = call.keyB

\* C17: the setup key is the same for two settings records that differ only
\* in sourcesProvider, variants, sources or prefix, and the ports key is the
\* same for two records that differ only in prefix or variants
C17_KeysIgnoreUnrelatedSettings ==
    /\ (pc = "called" /\ call.op = "generateSetupCacheKey"
           /\ call.a.version = call.b.version
           /\ call.a.resolvedVersion = call.b.resolvedVersion
           /\ call.a.gitRef = call.b.gitRef)
          => call.keyA = call.keyB
    /\ (pc = "called" /\ call.op = "generatePortsCacheKey"
           /\ call.a.version = call.b.version
           /\ call.a.resolvedVersion = call.b.resolvedVersion
           /\ call.a.gitRef = call.b.gitRef
           /\ call.a.sourcesProvider = call.b.sourcesProvider
           /\ call.a.sources = call.b.sources)
          => call.keyA = call.keyB

\* the ports key of two records with different prefixes and variants
C17_PortsKeySharedAcrossPrefixes ==
    /\ pc = "called"
    /\ call.op = "generatePortsCacheKey"
    /\ call.a.prefix # call.b.prefix
    /\ call.a.variants # call.b.variants
    /\ call.a.sourcesProvider = "git" /\ call.b.sourcesProvider = "git"
    /\ call.a.gitRef = "release" /\ call.b.gitRef = "release"
    /\ call.keyA # <<>>
    /\ call.keyA = call.keyB

\* C18: in the ports key the provider is git exactly for sourcesProvider git
\* and rsync for auto, rsync and custom; the ref is gitRef only for provider
\* git with gitRef set, and master in every other case
C18_PortsKeyProviderAndRef ==
    (pc = "called" /\ call.op = "generatePortsCacheKey") =>
        /\ call.keyA[1].provider =
              (IF call.a.sourcesProvider = "git" THEN "git" ELSE "rsync")
        /\ call.keyA[1].gitRef =
              (IF call.a.sourcesProvider = "git" /\ call.a.gitRef # ""
               THEN call.a.gitRef ELSE "master")

\* an rsync record with gitRef set has the ref in its ports key
C18_RsyncKeyCarriesGitRef ==
    /\ pc = "called"
    /\ call.op = "generatePortsCacheKey"
    /\ call.a.sourcesProvider = "rsync"
    /\ call.a.gitRef = "release"
    /\ call.keyA = << [ns |-> "macports-ports", provider |-> "rsync",
                       gitRef |-> "release", platformMajor |-> "15"] >>

\* C19: a key operation leaves the settings record as it was: the variant
\* lists and the sources keep their elements and their order, and the
\* configuration written afterwards lists them in the order given
C19_KeyDerivationLeavesSettings ==
    (pc = "called" /\ call.op \in KeyOperations) =>
        /\ call.afterA = call.a
        /\ call.afterB = call.b
        /\ call.variantsConf =
              [i \in 1..Len(call.a.variants.select) |->
                  <<"+", call.a.variants.select[i]>>]
              \o [i \in 1..Len(call.a.variants.deselect) |->
                    <<"-", call.a.variants.deselect[i]>>]
        /\ call.customSources = call.a.sources

\* generateCacheKey has sorted the selected variants of the record
C19_GenerateCacheKeySortsSettings ==
    /\ pc = "called"
    /\ call.op = "generateCacheKey"
    /\ call.a.variants.select = <<"x11", "aqua">>
    /\ call.afterA.variants.select = <<"aqua", "x11">>
    /\ call.variantsConf[1] = <<"+", "aqua">>

\* C20: for every port the arguments of the port command are -f exactly when
\* the name is in signatureSkipPackages and signatureCheck is permissive, then
\* -v exactly when verbose is set, then install, the name, and the variant
\* tokens in their order
C20_PortArgumentVector ==
    call.op = "install" =>
        \A i \in 1..Len(call.commands) :
            LET st == call.settings
                port == st.ports[i]
            IN call.commands[i].args =
                 (IF port.name \in st.signatureSkipPackages
                       /\ st.signatureCheck = "permissive"
                  THEN <<"-f">> ELSE <<>>)
                 \o (IF st.verbose THEN <<"-v">> ELSE <<>>)
                 \o <<"install", port.name>>
                 \o SelectSeq(port.variants, LAMBDA x : x \notin {" ", "  "})

\* under strict signature checking a listed port is installed with -f
C20_ForceUnderStrict ==
    /\ call.op = "install"
    /\ pc = "called"
    /\ call.settings.signatureCheck = "strict"
    /\ Len(call.commands) = 1
    /\ call.commands[1].args = <<"-f", "-v", "install", "gdk-pixbuf2", "+x11",
                                 "-aqua">>

\* the inputs hold a validation error: no version, no prefix or a relative
\* one, an unknown sources-provider, a variant token without + or -
InvalidInputs(in) ==
    \/ in.version = <<>>
    \/ in.prefix = ""
    \/ ~IsAbsolute(in.prefix)
    \/ in.sourcesProvider \notin {"", "auto", "git", "rsync", "custom"}
    \/ \E i \in 1..Len(in.variants) : in.variants[i][1] \notin {"+", "-"}

\* C21: a validation error in the inputs fails the run at once: no settings
\* record is produced, and no version query, platform probe, cache request,
\* download or file write happens in that run
C21_InvalidInputsFailAtOnce ==
    (call.op = "run" /\ InvalidInputs(call.inputs) /\ pc # "getInputs") =>
        /\ pc = "done"
        /\ failed
        /\ failure # <<>>
        /\ settings = NoSettings
        /\ queries = 0 /\ attempt = 0
        /\ trace = <<>>
        /\ keys = NoKeys
        /\ installInfo = NoInstallInfo
        /\ sourcesConf = <<>>
        /\ installed = <<>>
        /\ outputs = NoOutputs
        /\ saved = NoSaved

\* a variant token without a sign has failed the run
C21_BadVariantFailedRun ==
    /\ call.op = "run"
    /\ pc = "done"
    /\ call.inputs.version = VExplicit
    /\ call.inputs.prefix = "/opt/local"
    /\ call.inputs.variants = << <<"+", "x11">>, <<"a", "qua">> >>
    /\ failed
    /\ failure = << <<"Invalid variant syntax", "">> >>
    /\ settings = NoSettings

\* C22: on a host that is not macOS the run ends failed with a message that
\* names the platform, and no cache restore is requested, no installer
\* package is downloaded or run and no configuration file is written
C22_OtherHostsFail ==
    env.host.platform # "darwin" =>
        /\ pc \in {"getInputs", "start", "resolve", "getOctokit",
                    "listReleases", "resolved", "detect", "done"}
        /\ pc = "done" =>
              /\ failed
              /\ failure # <<>>
              /\ failure[1][2] = env.host.platform
        /\ trace = <<>>
        /\ keys = NoKeys
        /\ ~setupCacheHit /\ ~portsCacheHit
        /\ providerCall = "none"
        /\ installInfo = NoInstallInfo
        /\ sourcesConf = <<>>
        /\ installed = <<>>

\* a run on Linux has ended failed, after the version was resolved
C22_LinuxRunFailed ==
    /\ env.host.platform = "linux"
    /\ pc = "done"
    /\ failed
    /\ failure = << <<"This action only works on macOS runners. Current platform",
                      "linux">> >>
    /\ settings.resolvedVersion # <<>>
    /\ trace = <<>>

\* C23: with provider git or rsync and a non-empty 'sources' input, the
\* sources.conf written holds the primary source marked [default] and every
\* source of the user as a further entry
C23_UserSourcesKeptBesidePrimary ==
    (call.op = "run" /\ sourcesConf # <<>>
        /\ settings.sourcesProvider \in {"git", "rsync"}
        /\ settings.sources # <<>>) =>
            /\ sourcesConf[1].default
            /\ \A i \in 1..Len(settings.sources) :
                  \E j \in 2..Len(sourcesConf) :
                      sourcesConf[j].url = settings.sources[i].url

\* in rsync mode the file holds the rsync source alone
C23_UserSourcesDropped ==
    /\ call.op = "run"
    /\ settings # NoSettings
    /\ settings.sourcesProvider = "rsync"
    /\ Len(settings.sources) = 2
    /\ sourcesConf = << [url |-> <<settings.rsyncUrl>>, default |-> TRUE] >>
    /\ pc = "done"
    /\ ~failed

\* C24: the git-ref input selects the ref that is fetched in git mode and
\* that is in the ports cache key: for a non-empty git-ref r, settings.gitRef
\* is r, the fetch is issued for r and the ports key carries r
C24_GitRefInputSelectsRef ==
    (call.op = "run" /\ call.inputs.gitRef # "" /\ settings # NoSettings) =>
        /\ settings.gitRef = call.inputs.gitRef
        /\ Did("gitPrepared") => FetchRef(settings) = call.inputs.gitRef
        /\ \A key \in keys.ports :
              settings.sourcesProvider = "git" => key.gitRef = call.inputs.gitRef

\* with git-ref 'release' the fetch was issued for master
C24_GitRefInputIgnored ==
    /\ call.op = "run"
    /\ call.inputs.gitRef = "release"
    /\ call.inputs.sourcesProvider = "git"
    /\ settings # NoSettings
    /\ settings.gitRef = ""
    /\ Did("gitPrepared")
    /\ FetchRef(settings) = "master"
    /\ \E key \in keys.ports : key.gitRef = "master"

\* number of entries of a source list that are marked [default]
Defaults(sources) ==
    Cardinality({ i \in 1..Len(sources) : sources[i].default })

\* C25: with provider custom, a source list with more than one entry marked
\* [default] is rejected or at least warned about; it is never written to
\* sources.conf without a word
C25_DuplicateDefaultNotSilent ==
    (call.op = "run" /\ settings # NoSettings
        /\ settings.sourcesProvider = "custom"
        /\ Defaults(settings.sources) > 1
        /\ sourcesConf = settings.sources) =>
            failed \/ warnings # {}

\* the run is over, both default entries are in the file, nothing was said
C25_TwoDefaultsWritten ==
    /\ call.op = "run"
    /\ settings # NoSettings
    /\ settings.sourcesProvider = "custom"
    /\ Len(sourcesConf) = 2
    /\ sourcesConf[1].default /\ sourcesConf[2].default
    /\ pc = "done"
    /\ ~failed
    /\ warnings = {}

\* C26: in auto mode, after the git path has failed and the failure was
\* caught, the sources.conf written is the one rsync mode writes for the same
\* settings: the single entry is the configured rsyncUrl marked [default]
C26_AutoFallbackWritesRsyncUrl ==
    (call.op = "run" /\ settings # NoSettings
        /\ settings.sourcesProvider = "auto"
        /\ fetchFailure \in {"format", "fs"}
        /\ sourcesConf # <<>>) =>
            sourcesConf = << [url |-> <<settings.rsyncUrl>>, default |-> TRUE] >>

\* the fallback of auto mode wrote the built-in URL, not the rsync-url input
C26_AutoFallbackWritesBuiltInUrl ==
    /\ call.op = "run"
    /\ settings # NoSettings
    /\ settings.sourcesProvider = "auto"
    /\ settings.rsyncUrl = "rsync://mirror/ports.tar"
    /\ fetchFailure = "fs"
    /\ installInfo.usesGitSources = "false"
    /\ sourcesConf =
          << [url |-> <<"rsync://rsync.macports.org/macports/release/tarballs/ports.tar">>,
              default |-> TRUE] >>

\* the place of a step in MacPortsProvider.setup, 0 for a step outside it
StepRank(step) ==
    CASE step = "buildUrl" -> 1
      [] step = "download" -> 2
      [] step = "installer" -> 3
      [] step = "gitPrepared" -> 4
      [] step \in {"writeConf", "writeConfFailed"} -> 5
      [] step = "sync" -> 6
      [] step = "portInstall" -> 7
      [] OTHER -> 0

\* C27: in a fresh install the steps run in this order, each after the one
\* before it has completed: package URL, download and installer, sources,
\* configuration files and first sync, ports, post state, outputs; a step
\* that raises prevents the later ones, and sources.conf points at the git
\* sources when the first sync runs
C27_FreshInstallOrder ==
    providerCall = "setup" =>
        /\ \A i, j \in 1..Len(trace) :
              (i < j /\ StepRank(trace[i]) > 0 /\ StepRank(trace[j]) > 0) =>
                  /\ StepRank(trace[i]) <= StepRank(trace[j])
                  /\ StepRank(trace[i]) = StepRank(trace[j]) =>
                        trace[i] = "portInstall"
        /\ Did("download") => Did("buildUrl")
        /\ Did("installer") => Did("download")
        /\ Did("gitPrepared") => Did("installer")
        /\ (Did("writeConf") \/ Did("writeConfFailed")) =>
              Did("installer") /\ installInfo.usesGitSources # "unset"
        /\ Did("sync") => Did("writeConf")
        /\ Did("writeConfFailed") => failed /\ ~Did("sync")
        /\ (Did("sync") /\ installInfo.usesGitSources = "true") =>
              sourcesConf =
                << [url |-> <<"file://">> \o installInfo.gitSourcePath[1]
                              \o <<"/">>,
                    default |-> TRUE] >>
        /\ Did("portInstall") => Did("sync")
        /\ saved.isPost # {} =>
              Did("sync") /\ Len(installed) = Len(settings.ports)
        /\ outputs # NoOutputs => saved.isPost # {}
        /\ failed => pc = "done"

\* a fresh install in git mode with a port went through all its steps
C27_AllStepsInOrder ==
    /\ providerCall = "setup"
    /\ settings.sourcesProvider = "git"
    /\ trace = <<"buildUrl", "download", "installer", "gitPrepared",
                 "writeConf", "sync", "portInstall">>
    /\ saved.isPost = {"true"}
    /\ outputs # NoOutputs
    /\ pc = "done"

\* C28: a port install command that exits non-zero is not reported as
\* installed successfully: the failure fails the run, and no port after it is
\* installed
C28_FailedPortInstallSurfaces ==
    \A i \in 1..Len(installed) :
        installed[i].exitCode # 0 =>
            /\ installed[i].logged # "installed successfully"
            /\ i = Len(installed)
            /\ pc = "done" => failed

\* the port command exited with 1, the port is logged as installed and the
\* run has ended without a failure
C28_FailedPortReportedInstalled ==
    /\ Len(installed) = 1
    /\ installed[1].exitCode = 1
    /\ installed[1].logged = "installed successfully"
    /\ saved.isPost = {"true"}
    /\ pc = "done"
    /\ ~failed

\* C29: once the isPost flag is persisted, the installation prefix, the cache
\* key and the resolved version are persisted in the same run too, after setup
\* and after configure alike; and isPost is persisted only by a run whose steps
\* all succeeded
C29_PostStateComplete ==
    saved.isPost # {} =>
        /\ saved.installationPrefix = {settings.prefix}
        /\ saved.cacheKey # {}
        /\ saved.macportsVersion = {EffectiveVersion(settings)}
        /\ ~failed
        /\ \A i \in 1..Len(installed) : installed[i].exitCode = 0

\* a cache-hit run, every step of which succeeded, has persisted isPost and
\* none of the other three
C29_CacheHitPersistsIsPostAlone ==
    /\ pc = "done"
    /\ ~failed
    /\ providerCall = "configure"
    /\ setupCacheHit
    /\ \A i \in 1..Len(installed) : installed[i].exitCode = 0
    /\ saved.isPost = {"true"}
    /\ saved.installationPrefix = {}
    /\ saved.cacheKey = {}
    /\ saved.macportsVersion = {}

\* setupGitSources on a fresh install: the path fetch returns for these
\* settings, <<>> where no fetch runs or the repository string is refused
FreshGitSourcePath(st) ==
    IF st.sourcesProvider \in {"auto", "git"}
       /\ ~FetchParse(st.gitRepository).throws
    THEN <<FinalPath(SourcesDir(st), st.gitRepository)>>
    ELSE <<>>

\* C30: when the setup cache and the ports cache both hit, the sources.conf
\* written from cache names the default source a fresh install with a
\* successful fetch wrote: the git sources path handed to the configurator
\* is the path the fetch produces for the same settings
C30_CachedSourcesMatchFresh ==
    (/\ providerCall = "configure"
     /\ setupCacheHit
     /\ portsCacheHit
     /\ sourcesConf # <<>>
     /\ FreshGitSourcePath(settings) # <<>>) =>
        /\ confGitPath = FreshGitSourcePath(settings)
        /\ sourcesConf = writeSourcesConf(settings, FreshGitSourcePath(settings))

\* both caches hit with sourcesProvider auto and owner/repo: the fetch of a
\* fresh install produces a path, the sources.conf from cache names the
\* built-in rsync URL
C30_AutoCacheHitNamesRsync ==
    /\ pc = "done"
    /\ ~failed
    /\ providerCall = "configure"
    /\ setupCacheHit
    /\ portsCacheHit
    /\ settings.sourcesProvider = "auto"
    /\ FreshGitSourcePath(settings) =
          << <<"/opt/local", "var", "macports", "sources", "github.com",
               "macports", "macports-ports">> >>
    /\ confGitPath = <<>>
    /\ sourcesConf = << [url |-> <<DefaultRsyncUrl>>, default |-> TRUE] >>

====
